---- MODULE Spec2Model ----
(***************************************************************************)
(* Model of deeppresenter/test/validate_html2pptx.py: the batch that       *)
(* renders every workspace twice (html -> pptx, html -> pdf), validates    *)
(* the pptx, compares the frame images of both renderings and quarantines  *)
(* the failing workspaces.                                                 *)
(*                                                                         *)
(* main() runs one asyncio task per workspace on a single event loop.  A   *)
(* task is atomic between two awaits, so one action models the code from   *)
(* one await to the next:                                                  *)
(*   process_slides_start       lines  92-140 (intake, semaphore, rmtree,  *)
(*                              call of convert_html_to_pptx)              *)
(*   semaphore_acquire          line  133 for a task that had to wait      *)
(*   convert_html_to_pptx_done  lines 139-147                              *)
(*   ppt_to_images_done         lines 147-158                              *)
(*   convert_to_pdf_done        lines 153-181 (the synchronous tail:       *)
(*                              validity, counts, embeddings, comparison)  *)
(*   main_as_completed          lines 195-202, one iteration of the loop   *)
(*   main_print                 line  203                                  *)
(* Similarities are in hundredths (0.8 is 80).                             *)
(***************************************************************************)
EXTENDS Integers, Sequences, FiniteSets, Bags, TLC

VARIABLES
    ws,          \* the workspaces of the batch, in sorted order: what each holds
                 \* on disk and what the collaborators answer for it
    task,        \* per workspace: the position and outcome of its task
    sem,         \* value of the asyncio.Semaphore
    doneq,       \* tasks that completed and that as_completed has not yielded yet
    collected,   \* tasks whose result main has awaited
    counter,     \* defaultdict(int): failure reason -> count (a bag)
    marker,      \* per workspace: content of .html2pptx.error.txt ({} = no file)
    quarantine,  \* copies under test_html2pptx/
    mainpc,      \* "collect" | "printed" | "aborted"
    printed,     \* the summary line: <<errors, folders>>, <<>> before it
    fs,          \* per workspace: its derived artifacts on disk, each
                 \* "absent" | "old" (of an earlier run) | "new" (of this run)
    calls,       \* per workspace: the calls its task has made, in order
    GLOBAL_LOCK, \* threading.Lock: 0 = free, i = held by the task of workspace i
    IMAGE_MODEL, \* _IMAGE_MODEL: "none" | "loaded"
    modelInits,  \* how many times get_image_model() has built the model
    startup,     \* what main() finds when it starts: sys.argv[1], the entries of
                 \* /opt/workspace as iterdir() yields them, and test_html2pptx/
    prs,         \* a presentation given to _check_pptx_validity on its own
    validity,    \* what _check_pptx_validity returned for prs
    intermediate, \* a manifest whose artifact paths are resolved on their own
    paths,       \* the paths lines 109-127 resolved for intermediate
    todo_csv,    \* tools/task.py: the file todo.csv
    todo_call,   \* tools/task.py: the last call of a todo tool, the file before
                 \* it and what it returned
    todos_arg,   \* tools/task.py: a list given to _save_todos on its own
    callers,     \* tools/task.py: the tool calls of two callers in progress
    fin,         \* tools/task.py: a call of finalize: the agent, the outcome
                 \* path, the lock file and what was returned
    search       \* tools/search.py: a call of search_with_fallback: the keys,
                 \* the keys requested so far, and how it ended

vars == <<ws, task, sem, doneq, collected, counter, marker, quarantine, mainpc,
          printed, fs, calls, GLOBAL_LOCK, IMAGE_MODEL, modelInits, startup, prs, validity,
          intermediate, paths, todo_csv, todo_call, todos_arg, callers, fin, search>>

\* the state of main() and of the tasks' results
mainVars == <<collected, counter, marker, quarantine, mainpc, printed>>

\* the embedding model and its lock
modelVars == <<GLOBAL_LOCK, IMAGE_MODEL, modelInits>>

\* the arguments and results of the functions that are checked on their own
pureVars == <<prs, validity, intermediate, paths, todo_csv, todo_call, todos_arg, callers, fin, search>>

----------------------------------------------------------------------------
(* Program constants and bounds *)

SIMILARITY_THRESHOLD == 80

MAX_CONCURRENCY == 4

\* Frames per rendering: 0..MaxFrames
MaxFrames == 2

\* Workspaces in a batch of Spec
NumWS == 2

\* Workspaces in a batch of SpecCap (more than MAX_CONCURRENCY)
NumCapWS == 5

\* line 72: a run shorter than this, stripped, is not looked at
MIN_TEXT_LEN == 5

\* line 80: this many distinct repeated texts on a slide make the pptx invalid
DUPLICATE_LIMIT == 3

\* Shapes in a presentation of SpecValidity
MaxShapes == 6

\* Workspace directories under /opt/workspace in SpecMain
NumFound == 4

\* the todo list holds at most MaxTodos items
MaxTodos == 2

\* TAVILY_KEYS holds at most MaxKeys keys
MaxKeys == 3

\* Workspaces in a batch of SpecEmbed
NumEmbedWS == 2

\* Similarities a frame pair may have: below, at and above the threshold
SimValues == {75, 80, 81}

----------------------------------------------------------------------------
(* Failure reasons and task outcomes *)

Reason(m, d, x, y) == [msg |-> m, detail |-> d, a |-> x, b |-> y]

NoReason == Reason("", "", 0, 0)

\* an outcome of a stretch of _process_slides: the line it left the function
\* at (0: it goes on), how (none = return None, fail = return workspace, reason,
\* exc = an exception leaves the coroutine), and the calls made on the way
Outcome(line, k, r, e, c) ==
    [exit |-> line, kind |-> k, reason |-> r, embedCalls |-> e, compared |-> c]

Proceed == Outcome(0, "proceed", NoReason, 0, 0)

----------------------------------------------------------------------------
(* Workspaces *)

\* A workspace that passes every check.  A field the run never reads (it left
\* earlier) keeps the value it has here.
Good ==
    [manifest     |-> "ok",      \* intermediate_output.json: absent | malformed | ok
     htmlDir      |-> "files",   \* slide_html_dir: missing | empty | files
     pptxKey      |-> TRUE,      \* "pptx" in intermediate
     finalExt     |-> "pptx",    \* suffix of intermediate["final"]: pptx | pdf | other
     inputRequest |-> "ok",      \* .input_request.json validates: ok | invalid
     pptxConv     |-> "ok",      \* convert_html_to_pptx: ok | raise
     extract      |-> "ok",      \* ppt_to_images: ok | raise
     pdfConv      |-> "ok",      \* PlaywrightConverter.convert_to_pdf: ok | raise
     validity     |-> "valid",   \* _check_pptx_validity: valid | openfail | dup
     nPptx        |-> 1,         \* *.jpg under .pptx-images after rendering
     nPdf         |-> 1,         \* *.jpg under .slide_images-pdf-<stem>
     embed        |-> "ok",      \* get_image_embedding: ok | raise
     sims         |-> <<81>>,    \* cosine similarity of each frame pair
     oldPptx      |-> TRUE,      \* a pptx file of an earlier run is at pptx_path
     oldPptxImages |-> TRUE,     \* .pptx-images exists from an earlier run
     oldPdf       |-> TRUE,      \* a pdf file of an earlier run is at pdf_path
     oldPdfImages |-> TRUE,      \* .slide_images-pdf-<stem> exists from an earlier run
     partial      |-> TRUE]      \* a call that raises has written part of its output

PathCombos ==
    {<<k, e>> : k \in BOOLEAN, e \in {"pptx", "pdf", "other"}}

IntakeScenarios ==
    {[Good EXCEPT !.manifest = m] : m \in {"absent", "malformed"}}
    \cup {[Good EXCEPT !.htmlDir = d] : d \in {"missing", "empty"}}
    \cup {[Good EXCEPT !.pptxKey = FALSE, !.finalExt = "other"]}
    \cup {[Good EXCEPT !.inputRequest = "invalid"]}

RenderScenarios ==
    {[Good EXCEPT !.pptxConv = "raise", !.partial = p] : p \in BOOLEAN}
    \cup {[Good EXCEPT !.extract = "raise", !.partial = p] : p \in BOOLEAN}
    \cup {[Good EXCEPT !.pdfConv = "raise", !.partial = p] : p \in BOOLEAN}

CheckScenarios ==
    {[Good EXCEPT !.validity = v] : v \in {"openfail", "dup"}}
    \cup {[Good EXCEPT !.nPptx = c[1], !.nPdf = c[2], !.sims = <<>>] :
            c \in {d \in (0..MaxFrames) \X (0..MaxFrames) : d[1] # d[2]}}
    \cup {[Good EXCEPT !.nPptx = n, !.nPdf = n, !.embed = "raise", !.sims = <<>>] :
            n \in 0..MaxFrames}
    \cup UNION {{[Good EXCEPT !.nPptx = n, !.nPdf = n, !.sims = s] :
                    s \in [1..n -> SimValues]} : n \in 0..MaxFrames}

\* what an earlier run may have left in the workspace
OldArtifacts == [pptx : BOOLEAN, pptxImages : BOOLEAN, pdf : BOOLEAN, pdfImages : BOOLEAN]

\* every workspace of SpecOne: each kind above, under each way the manifest can
\* name the artifacts and with each set of artifacts left by an earlier run
AllScenarios ==
    IntakeScenarios
    \cup {[s EXCEPT !.pptxKey = p[1], !.finalExt = p[2],
                    !.oldPptx = old.pptx, !.oldPptxImages = old.pptxImages,
                    !.oldPdf = old.pdf, !.oldPdfImages = old.pdfImages] :
            s \in RenderScenarios \cup CheckScenarios,
            p \in PathCombos \ {<<FALSE, "other">>},
            old \in OldArtifacts}

\* the workspaces of Spec: one per way out of _process_slides
BatchScenarios ==
    IntakeScenarios \cup RenderScenarios
    \cup {[Good EXCEPT !.validity = "dup"],
          [Good EXCEPT !.nPptx = 2, !.nPdf = 1, !.sims = <<>>],
          [Good EXCEPT !.embed = "raise", !.sims = <<>>],
          [Good EXCEPT !.sims = <<75>>],
          Good}

----------------------------------------------------------------------------
(* _process_slides, as functions of the workspace *)

\* intake with a missing markup directory skipped (line 103 returning None)
intake_skip_missing(s) ==
    IF s.manifest = "absent" THEN Outcome(94, "none", NoReason, 0, 0)
    ELSE IF s.manifest = "malformed" THEN Outcome(96, "exc", NoReason, 0, 0)
    ELSE IF s.htmlDir = "missing" THEN Outcome(103, "none", NoReason, 0, 0)
    ELSE IF s.htmlDir = "empty" THEN Outcome(107, "none", NoReason, 0, 0)
    ELSE IF ~s.pptxKey /\ s.finalExt \notin {"pptx", "pdf"}
        THEN Outcome(117, "exc", NoReason, 0, 0)
    ELSE IF s.inputRequest = "invalid" THEN Outcome(128, "exc", NoReason, 0, 0)
    ELSE Proceed

\* intake with an empty markup directory reported (line 107 returning a reason)
intake_fail_empty(s) ==
    IF s.manifest = "absent" THEN Outcome(94, "none", NoReason, 0, 0)
    ELSE IF s.manifest = "malformed" THEN Outcome(96, "exc", NoReason, 0, 0)
    ELSE IF s.htmlDir = "missing"
        THEN Outcome(103, "fail", Reason("slide_html_dir missing", "", 0, 0), 0, 0)
    ELSE IF s.htmlDir = "empty"
        THEN Outcome(107, "fail", Reason("slide_html_dir missing", "", 0, 0), 0, 0)
    ELSE IF ~s.pptxKey /\ s.finalExt \notin {"pptx", "pdf"}
        THEN Outcome(117, "exc", NoReason, 0, 0)
    ELSE IF s.inputRequest = "invalid" THEN Outcome(128, "exc", NoReason, 0, 0)
    ELSE Proceed

\* lines 92-131: the code before the semaphore
intake(s) ==
    IF s.manifest = "absent" THEN Outcome(94, "none", NoReason, 0, 0)
    \* json.loads raises JSONDecodeError
    ELSE IF s.manifest = "malformed" THEN Outcome(96, "exc", NoReason, 0, 0)
    \* `if not slide_html_dir` (line 98) never holds: a Path is always true
    ELSE IF s.htmlDir = "missing"
        THEN Outcome(103, "fail", Reason("slide_html_dir missing", "", 0, 0), 0, 0)
    ELSE IF s.htmlDir = "empty" THEN Outcome(107, "none", NoReason, 0, 0)
    \* pptx_path stays None: pptx_path.is_absolute() raises AttributeError
    ELSE IF ~s.pptxKey /\ s.finalExt \notin {"pptx", "pdf"}
        THEN Outcome(117, "exc", NoReason, 0, 0)
    \* InputRequest.model_validate_json / read_text raises
    ELSE IF s.inputRequest = "invalid" THEN Outcome(128, "exc", NoReason, 0, 0)
    ELSE Proceed

\* line 50 with <= for <
mismatch_inclusive(sim) == sim <= SIMILARITY_THRESHOLD

\* line 50: the test of one frame pair
mismatch(sim) == sim < SIMILARITY_THRESHOLD

\* _compare_images going through every pair and reporting the last mismatch
last_mismatch(sims) ==
    IF \E k \in 1..Len(sims) : mismatch(sims[k])
    THEN CHOOSE k \in 1..Len(sims) :
            /\ mismatch(sims[k])
            /\ \A j \in (k + 1)..Len(sims) : ~mismatch(sims[j])
    ELSE 0

\* lines 40-52, _compare_images: the pairs whose similarity is computed are
\* 1..first mismatch; 0 when no pair is below the threshold
first_mismatch(sims) ==
    IF \E k \in 1..Len(sims) : mismatch(sims[k])
    THEN CHOOSE k \in 1..Len(sims) :
            /\ mismatch(sims[k])
            /\ \A j \in 1..(k - 1) : ~mismatch(sims[j])
    ELSE 0

\* lines 166-179 with the embeddings computed before the counts are compared
compare_embed_first(s) ==
    IF s.embed = "raise" THEN Outcome(173, "exc", NoReason, 1, 0)
    ELSE IF s.nPptx # s.nPdf
        THEN Outcome(169, "fail",
                     Reason("image count mismatch", "", s.nPptx, s.nPdf), 2, 0)
    ELSE IF first_mismatch(s.sims) # 0
        THEN Outcome(179, "fail",
                     Reason("Image similarity missmatch", "",
                            first_mismatch(s.sims), s.sims[first_mismatch(s.sims)]),
                     2, first_mismatch(s.sims))
    ELSE Outcome(181, "none", NoReason, 2, Len(s.sims))

\* lines 166-181: counts, embeddings, comparison
compare(s) ==
    IF s.nPptx # s.nPdf
        THEN Outcome(169, "fail",
                     Reason("image count mismatch", "", s.nPptx, s.nPdf), 0, 0)
    \* _image_embeddings is outside the try block: its exception leaves the task
    ELSE IF s.embed = "raise" THEN Outcome(173, "exc", NoReason, 1, 0)
    ELSE IF first_mismatch(s.sims) # 0
        THEN Outcome(179, "fail",
                     Reason("Image similarity missmatch", "",
                            first_mismatch(s.sims), s.sims[first_mismatch(s.sims)]),
                     2, first_mismatch(s.sims))
    ELSE Outcome(181, "none", NoReason, 2, Len(s.sims))

\* lines 162-181 with the frames compared before the pptx is validated
check_after_compare(s) ==
    IF compare(s).kind # "none" THEN compare(s)
    ELSE IF s.validity = "openfail"
        THEN Outcome(164, "fail", Reason("pptx open failed", "", 0, 0),
                     compare(s).embedCalls, compare(s).compared)
    ELSE IF s.validity = "dup"
        THEN Outcome(164, "fail", Reason("Duplicate text", "", 0, 0),
                     compare(s).embedCalls, compare(s).compared)
    ELSE compare(s)

\* lines 162-181: the synchronous tail after both conversions
check_and_compare(s) ==
    IF s.validity = "openfail"
        THEN Outcome(164, "fail", Reason("pptx open failed", "", 0, 0), 0, 0)
    ELSE IF s.validity = "dup"
        THEN Outcome(164, "fail", Reason("Duplicate text", "", 0, 0), 0, 0)
    ELSE compare(s)

----------------------------------------------------------------------------
(* State *)

Tasks == 1..Len(ws)

NewTask == [pc |-> "start", exit |-> 0, kind |-> "pending", reason |-> NoReason,
            embedCalls |-> 0, compared |-> 0]

\* the task after it left _process_slides with outcome o
Finished(o) == [pc |-> "done", exit |-> o.exit, kind |-> o.kind, reason |-> o.reason,
                embedCalls |-> o.embedCalls, compared |-> o.compared]

InSection == {"pptx", "images", "pdf"}

\* a semaphore that never blocks
can_acquire_always(v) == TRUE

\* line 133, Semaphore.acquire: a slot is free
can_acquire(v) == v > 0

\* line 202 left out
copytree_nothing(q, i, m) == q

\* line 202: shutil.copytree(workspace, test_html2pptx/<name>)
copytree(q, i, m) == q \cup {[name |-> i, content |-> ws[i], marker |-> m]}

----------------------------------------------------------------------------
(* _check_pptx_validity, as a function of the presentation *)

\* A text is the sequence of its characters.  A presentation is a record: does
\* Presentation() open it, and its slides; a slide is the sequence of its
\* shapes, each with a text frame of one paragraph of one run, given by the
\* text of the run.
Alpha == <<"a", "l", "p", "h", "a">>

AlphaPadded == <<" ", "a", "l", "p", "h", "a", " ">>

Bravo == <<"b", "r", "a", "v", "o">>

Charlie == <<"c", "h", "a", "r", "l", "i", "e">>

\* 6 characters, 2 without the white space around them
Short == <<" ", " ", "h", "i", " ", " ">>

Texts == <<Alpha, AlphaPadded, Bravo, Charlie, Short>>

\* the texts of the runs are named in the order of their first appearance:
\* bravo only after an alpha, charlie only after a bravo
TextRank(k) == IF k <= 2 THEN 1 ELSE IF k = 3 THEN 2 ELSE IF k = 4 THEN 3 ELSE 0

InOrderOfAppearance(t) ==
    \A k \in 1..Len(t) :
        TextRank(t[k]) >= 2 => \E j \in 1..(k - 1) : TextRank(t[j]) = TextRank(t[k]) - 1

\* the presentations of one or two slides whose shapes have the texts t
Presentations(t) ==
    LET runs == [k \in 1..Len(t) |-> Texts[t[k]]] IN
    {[opens |-> TRUE, slides |-> <<runs>>]}
    \cup {[opens |-> TRUE,
           slides |-> <<SubSeq(runs, 1, b), SubSeq(runs, b + 1, Len(t))>>] : b \in 0..Len(t)}

Result(r, t, i, k) == [ret |-> r, text |-> t, slide |-> i, shape |-> k]

Valid == Result("valid", <<>>, 0, 0)

RECURSIVE lstrip(_)
lstrip(text) ==
    IF text # <<>> /\ Head(text) = " " THEN lstrip(Tail(text)) ELSE text

RECURSIVE rstrip(_)
rstrip(text) ==
    IF text # <<>> /\ text[Len(text)] = " "
    THEN rstrip(SubSeq(text, 1, Len(text) - 1))
    ELSE text

\* run.text taken as it is
strip_nothing(text) == text

\* line 71, str.strip()
strip(text) == rstrip(lstrip(text))

\* lines 66-84 counting every repeated occurrence of a text, not the distinct
\* repeated texts
RECURSIVE check_shapes_occurrences(_, _, _, _)
check_shapes_occurrences(shapes, shape_id, seen, duplicate_texts) ==
    IF shape_id >= Len(shapes) THEN Valid
    ELSE LET text == strip(shapes[shape_id + 1]) IN
         IF Len(text) < MIN_TEXT_LEN
         THEN check_shapes_occurrences(shapes, shape_id + 1, seen, duplicate_texts)
         ELSE LET dup == IF text \in seen
                         THEN duplicate_texts \cup {<<text, shape_id>>}
                         ELSE duplicate_texts
              IN IF Cardinality(dup) >= DUPLICATE_LIMIT
                 THEN Result("dup", text, 0, shape_id)
                 ELSE check_shapes_occurrences(shapes, shape_id + 1, seen \cup {text}, dup)

\* lines 66-84: the loop over the shapes of one slide, from shape shape_id on
\* (counted from 0 as enumerate does), with the two sets so far
RECURSIVE check_shapes(_, _, _, _)
check_shapes(shapes, shape_id, seen, duplicate_texts) ==
    IF shape_id >= Len(shapes) THEN Valid
    ELSE LET text == strip(shapes[shape_id + 1]) IN
         IF Len(text) < MIN_TEXT_LEN
         THEN check_shapes(shapes, shape_id + 1, seen, duplicate_texts)
         ELSE LET dup == IF text \in seen
                         THEN duplicate_texts \cup {text}
                         ELSE duplicate_texts
              IN IF Cardinality(dup) >= DUPLICATE_LIMIT
                 THEN Result("dup", text, 0, shape_id)
                 ELSE check_shapes(shapes, shape_id + 1, seen \cup {text}, dup)

\* the shapes of all slides from slide idx on, in one sequence
RECURSIVE shapes_from(_, _)
shapes_from(slides, idx) ==
    IF idx >= Len(slides) THEN <<>>
    ELSE slides[idx + 1] \o shapes_from(slides, idx + 1)

\* the slide of the shape at position k (from 0) of shapes_from(slides, idx)
RECURSIVE slide_of(_, _, _)
slide_of(slides, idx, k) ==
    IF k < Len(slides[idx + 1]) THEN idx
    ELSE slide_of(slides, idx + 1, k - Len(slides[idx + 1]))

\* lines 61-84 with the two sets kept over all slides
check_slides_whole(slides, idx) ==
    LET r == check_shapes(shapes_from(slides, idx), 0, {}, {}) IN
    IF r.ret = "dup"
    THEN [r EXCEPT !.slide = slide_of(slides, idx, r.shape),
                   !.shape = r.shape
                       - Len(shapes_from(SubSeq(slides, 1, slide_of(slides, idx, r.shape)), idx))]
    ELSE r

\* lines 61-86: the loop over the slides from slide idx on (counted from 0);
\* lines 64-65 start every slide with two empty sets
RECURSIVE check_slides(_, _)
check_slides(slides, idx) ==
    IF idx >= Len(slides) THEN Valid
    ELSE LET r == check_shapes(slides[idx + 1], 0, {}, {}) IN
         IF r.ret = "dup" THEN [r EXCEPT !.slide = idx]
         ELSE check_slides(slides, idx + 1)

\* lines 55-86
check_pptx_validity(p) ==
    IF ~p.opens THEN Result("openfail", <<>>, 0, 0)
    ELSE check_slides(p.slides, 0)

----------------------------------------------------------------------------
(* lines 109-127 of _process_slides: the artifact paths, as functions of the
   manifest *)

\* A path is a record: its root ("" for a relative path, "/" for an absolute
\* one, "workspace" for one joined to the workspace directory, which is
\* absolute), the stem of its last component and its suffix.
PathOf(r, st, su) == [root |-> r, stem |-> st, suffix |-> su]

\* Path(""), what Path(intermediate.get("final", "")) is without the key
EmptyPath == PathOf("", "", "")

\* pptx_path = None
NonePath == PathOf("none", "", "")

\* the manifests: the key "pptx" or not, and the paths under "pptx" and "final"
Manifests ==
    {[hasPptx |-> h, pptx |-> p, final |-> f] :
        h \in BOOLEAN,
        p \in {PathOf(r, st, su) : r \in {"", "/"}, st \in {"deck"}, su \in {".pptx", ""}},
        f \in {EmptyPath}
              \cup {PathOf(r, st, su) : r \in {"", "/"}, st \in {"deck", "final"},
                                       su \in {".pptx", ".PPTX", ".pdf", ".PDF", ".json", ""}}}

\* str.lower() of a suffix
lower(su) == IF su = ".PPTX" THEN ".pptx" ELSE IF su = ".PDF" THEN ".pdf" ELSE su

is_absolute(p) == p.root # ""

\* workspace / p
joinpath(p) == [p EXCEPT !.root = "workspace"]

with_suffix(p, su) == [p EXCEPT !.suffix = su]

\* lines 109-118
pptx_path_of(m) ==
    LET final_path == m.final
        pptx_path == IF m.hasPptx THEN m.pptx
                     ELSE IF lower(final_path.suffix) = ".pptx" THEN final_path
                     ELSE IF lower(final_path.suffix) = ".pdf"
                         THEN with_suffix(final_path, ".pptx")
                     ELSE NonePath
    IN IF pptx_path = NonePath THEN NonePath      \* line 117 raises AttributeError
       ELSE IF ~is_absolute(pptx_path) THEN joinpath(pptx_path)
       ELSE pptx_path

\* lines 120-126 always deriving the pdf from the pptx
pdf_path_derived(m, pptx_path) ==
    with_suffix(pptx_path, ".pdf")

\* lines 120-126
pdf_path_of(m, pptx_path) ==
    LET final_path == m.final
        pdf_path == IF lower(final_path.suffix) = ".pdf" THEN final_path
                    ELSE with_suffix(pptx_path, ".pdf")
    IN IF ~is_absolute(pdf_path) THEN joinpath(pdf_path) ELSE pdf_path

\* lines 109-127: the paths of a manifest, or the exception of line 117
resolve_paths(m) ==
    IF pptx_path_of(m) = NonePath
    THEN [raised |-> TRUE, pptx_path |-> NonePath, pdf_path |-> NonePath]
    ELSE [raised |-> FALSE,
          pptx_path |-> pptx_path_of(m),
          pdf_path |-> pdf_path_of(m, pptx_path_of(m))]

\* no manifest is resolved on its own
NoManifest == [hasPptx |-> FALSE, pptx |-> EmptyPath, final |-> EmptyPath]

NotResolved == [raised |-> FALSE, pptx_path |-> EmptyPath, pdf_path |-> EmptyPath]

InitNoPaths ==
    /\ intermediate = NoManifest
    /\ paths = NotResolved

----------------------------------------------------------------------------
(* deeppresenter/tools/task.py: the todo list kept in todo.csv *)

Statuses == {"pending", "in_progress", "completed", "skipped"}

\* the statuses todo_update accepts
UpdateStatuses == {"completed", "in_progress", "skipped"}

\* A content is the sequence of its characters: one of one line, and one of
\* two lines parted by a carriage return and a line feed
Plain == <<"p">>

TwoLines == <<"a", "\r", "\n", "b">>

\* TwoLines as a file opened in text mode gives it back
TwoLinesRead == <<"a", "\n", "b">>

\* the contents the tools are called with
Contents == {Plain, TwoLines}

\* status left at its default
None == "None"

\* todo_content left at its default
NoContent == <<"None">>

Digits == <<"0", "1", "2", "3", "4", "5", "6", "7", "8", "9">>

RECURSIVE str(_)
\* str(n) of a natural number
str(n) == IF n < 10 THEN Digits[n + 1] ELSE str(n \div 10) \o Digits[(n % 10) + 1]

Todo(id, content, status) == [id |-> id, content |-> content, status |-> status]

\* the file: whether it exists, and its lines, each a sequence of fields
NoFile == [exists |-> FALSE, lines |-> <<>>]

fieldnames == <<"id", "content", "status">>

RECURSIVE universal_newlines(_)
\* line 82: open() without newline="" gives every "\r\n" and every "\r" of
\* the file as "\n", inside a quoted field as anywhere else
universal_newlines(text) ==
    IF text = <<>> THEN <<>>
    ELSE IF Head(text) = "\r"
    THEN IF Len(text) >= 2 /\ text[2] = "\n"
         THEN <<"\n">> \o universal_newlines(Tail(Tail(text)))
         ELSE <<"\n">> \o universal_newlines(Tail(text))
    ELSE <<Head(text)>> \o universal_newlines(Tail(text))

\* _load_todos: nothing without the file; else the rows after the header.
\* The ids and statuses hold no carriage return; the quoting of the writer
\* is undone by the reader and is left out of the file's model.
_load_todos(file) ==
    IF ~file.exists THEN <<>>
    ELSE IF file.lines = <<>> THEN <<>>
    ELSE [k \in 1..(Len(file.lines) - 1) |->
             Todo(file.lines[k + 1][1], universal_newlines(file.lines[k + 1][2]),
                  file.lines[k + 1][3])]

\* _save_todos: the file is rewritten; header and rows only for a list that
\* is not empty
_save_todos(todos) ==
    [exists |-> TRUE,
     lines |-> IF todos # <<>>
               THEN <<fieldnames>> \o [k \in 1..Len(todos) |->
                        <<todos[k].id, todos[k].content, todos[k].status>>]
               ELSE <<>>]

\* line 158 leaving the file in place
unlink_nothing(file) == file

\* line 158: LOCAL_TODO_CSV_PATH.unlink(missing_ok=True)
unlink(file) == NoFile

\* what a tool returned: its message, the id or index in it, the list
Return(msg, id, todos) == [msg |-> msg, id |-> id, todos |-> todos]

\* the arguments of a tool
Args(idx, todo_content, status) == [idx |-> idx, todo_content |-> todo_content, status |-> status]

NoArgs == Args(-1, NoContent, None)

\* a call of a tool: its arguments, the file before it and what it returned
TodoCall(fn, args, file, ret) == [fn |-> fn, args |-> args, before |-> file, ret |-> ret]

NoTodoCall == TodoCall("none", NoArgs, NoFile, Return("", "", <<>>))


\* line 110 counting from one
new_id_from_one(todos) == str(Len(todos) + 1)

\* line 110: new_id = str(len(todos))
new_id_of(todos) == str(Len(todos))

\* lines 138-141 always changing the first todo
update_first(todos, idx, todo_content, status) ==
    [todos EXCEPT ![1] =
        Todo(@.id,
             IF todo_content # NoContent THEN todo_content ELSE @.content,
             IF status # None THEN status ELSE @.status)]

\* lines 138-141: the todo at idx gets the content and the status that are
\* not None
update_todo(todos, idx, todo_content, status) ==
    [todos EXCEPT ![idx + 1] =
        Todo(@.id,
             IF todo_content # NoContent THEN todo_content ELSE @.content,
             IF status # None THEN status ELSE @.status)]

\* the two callers of the tools
Callers == {"A", "B"}

\* a call in progress: the tool and its arguments, where the caller is in it
\* ("called", "loaded" after _load_todos, "returned"), the list it loaded and
\* what it returned
Caller(fn, args, pc, todos, ret) ==
    [fn |-> fn, args |-> args, pc |-> pc, todos |-> todos, ret |-> ret]

NoReturn == Return("", "", <<>>)

NoCaller == Caller("none", NoArgs, "returned", <<>>, NoReturn)

\* the stems of the html files of an outcome directory
SlideOne == <<"s", "l", "i", "d", "e", "_", "1">>

SlideTwo == <<"s", "l", "i", "d", "e", "2">>

Index == <<"i", "n", "d", "e", "x">>

\* str.startswith
startswith(s, prefix) == Len(s) >= Len(prefix) /\ SubSeq(s, 1, Len(prefix)) = prefix

\* The outcome path as finalize meets it: does it exist, is it a file or a
\* directory, its suffix, whether it can be read as UTF-8 text, whether
\* Presentation() opens it and with how many slides, and the stems of the
\* *.html files in it.
Outcomes ==
    {[exists |-> e, kind |-> k, suffix |-> su, utf8 |-> u, opens |-> o, slides |-> n, html |-> h] :
        e \in BOOLEAN, k \in {"file", "dir"}, su \in {".md", ".pptx", ".txt"},
        u \in BOOLEAN, o \in BOOLEAN, n \in {0, 1},
        h \in SUBSET {SlideOne, SlideTwo, Index}}

\* the outcomes that can be: only a file is read or opened, only a directory
\* holds files, and what does not exist has nothing
PossibleOutcomes ==
    {o \in Outcomes :
        /\ (o.kind = "dir" \/ ~o.exists) => (~o.utf8 /\ ~o.opens)
        /\ (o.kind = "file" \/ ~o.exists) => o.html = {}
        /\ ~o.opens => o.slides = 0
        /\ o.opens => o.suffix = ".pptx"}

AgentNames == {"Research", "PPTAgent", "Design", ""}

\* lines 188-219: what finalize returns before it touches the todo files, or
\* "finalize" when it goes on to line 221, or "raised" when an exception
\* leaves it
finalize_checks(outcome, agent_name) ==
    IF ~outcome.exists THEN "Outcome does not exist"
    ELSE IF agent_name = "Research"
    THEN IF ~(outcome.kind = "file" /\ outcome.suffix = ".md")
         THEN "Outcome file should be a markdown file"
         ELSE IF ~outcome.utf8 THEN "raised"     \* f.read() at line 195
         ELSE "finalize"                         \* lines 197-206 catch what they raise
    ELSE IF agent_name = "PPTAgent"
    THEN IF ~(outcome.kind = "file" /\ outcome.suffix = ".pptx")
         THEN "Outcome file should be a pptx file"
         ELSE IF ~outcome.opens THEN "raised"    \* Presentation() at line 211
         ELSE IF outcome.slides <= 0 THEN "PPTX file should contain at least one slide"
         ELSE "finalize"
    ELSE IF agent_name = "Design"
    THEN IF Cardinality(outcome.html) <= 0
         THEN "Outcome path should be a directory containing HTML files"
         ELSE IF ~(\A f \in outcome.html : startswith(f, <<"s", "l", "i", "d", "e", "_">>))
         THEN "All HTML files should start with 'slide_'"
         ELSE "finalize"
    ELSE "finalize"

\* lines 223-224: the lock file is removed if it exists
unlink_lock(lock) == FALSE

\* a call of finalize: its arguments, whether .todo.csv.lock existed before
\* the call and whether it exists now, and what was returned ("" before the
\* call, "outcome" for the outcome path)
Finalize(agent_name, outcome, lock, ret) ==
    [agent_name |-> agent_name, outcome |-> outcome, lock_before |-> lock, lock |-> lock,
     ret |-> ret]

NoOutcome ==
    [exists |-> FALSE, kind |-> "file", suffix |-> ".txt", utf8 |-> FALSE, opens |-> FALSE,
     slides |-> 0, html |-> {}]

NoFinalize == Finalize("", NoOutcome, FALSE, "")

InitNoTodo ==
    /\ todo_csv = NoFile
    /\ todo_call = NoTodoCall
    /\ todos_arg = <<>>
    /\ callers = [c \in Callers |-> NoCaller]
    /\ fin = NoFinalize

----------------------------------------------------------------------------
(* deeppresenter/tools/search.py: search_with_fallback *)

\* the status of the response a key gets from the API
ResponseStatuses == {200, 204, 429, 500}

\* the lists of at most MaxKeys keys, each given by the status it gets
KeyLists == UNION {[1..n -> ResponseStatuses] : n \in 0..MaxKeys}

\* lines 45-54: tavily_request returns the body of a 200 response and raises
\* otherwise: raise_for_status() for a status from 400 on, the RuntimeError of
\* line 54 for any other
tavily_request(status) ==
    IF status = 200 THEN "json"
    ELSE IF status >= 400 THEN "ClientResponseError"
    ELSE "RuntimeError"

\* line 59 leaving out every second key
enumerate_skip(idx) == idx + 2

\* line 59: enumerate(TAVILY_KEYS, start=1) goes on to the next key
enumerate_next(idx) == idx + 1

\* a call of search_with_fallback: TAVILY_KEYS, the index of the key of the
\* iteration to come, the indices requested so far in their order, and the
\* end: "" while in the loop, "returned" with the index of the key whose
\* response is returned, or "RuntimeError"
Search(keys, idx, requested, end, from) ==
    [TAVILY_KEYS |-> keys, idx |-> idx, requested |-> requested, end |-> end, from |-> from]

NoSearch == Search(<<>>, 1, <<>>, "none", 0)

InitNoSearch == search = NoSearch

----------------------------------------------------------------------------
(* The batch *)

\* a call made by a task: the function and the path it is given
Call(f, x) == [fn |-> f, arg |-> x]

\* shutil.rmtree(path, ignore_errors=True) on a path in state x: a directory
\* tree is removed; on a regular file os.scandir raises NotADirectoryError,
\* which is ignored, and the file stays
rmtree(kind, x) == IF kind = "dir" THEN "absent" ELSE x

\* the derived artifacts of a workspace before the run
InitialFs(s) ==
    [pptx       |-> IF s.oldPptx THEN "old" ELSE "absent",
     pptxImages |-> IF s.oldPptxImages THEN "old" ELSE "absent",
     pdf        |-> IF s.oldPdf THEN "old" ELSE "absent",
     pdfImages  |-> IF s.oldPdfImages THEN "old" ELSE "absent",
     workspace  |-> "present"]

\* lines 96-131: the calls of the intake
intake_calls(s) ==
    IF s.manifest = "absent" THEN <<>>
    ELSE <<Call("json.loads", "intermediate_output.json")>>
         \o (IF intake(s).exit \in {0, 128}
             THEN <<Call("InputRequest.model_validate_json", ".input_request.json")>>
             ELSE <<>>)

\* lines 135-139: from the semaphore to the await of convert_html_to_pptx
pptx_stage_fs(f) ==
    [f EXCEPT !.pptx = IF @ # "absent" THEN rmtree("file", @) ELSE @]

pptx_stage_calls(f) ==
    (IF f.pptx # "absent" THEN <<Call("rmtree", "pptx_path")>> ELSE <<>>)
    \o <<Call("convert_html_to_pptx", "pptx_path")>>

\* a file written by this run at a path in state x: it replaces what was there
write_file(x) == "new"

\* frames written by this run into a directory in state x: they join the
\* frames that are there
write_frames(x) == IF x \in {"old", "mixed"} THEN "mixed" ELSE "new"

\* a call that raises may have written part of its output
raise_fs(f, s, call) ==
    IF ~s.partial THEN f
    ELSE IF call = "convert_html_to_pptx" THEN [f EXCEPT !.pptx = write_file(@)]
    ELSE IF call = "ppt_to_images" THEN [f EXCEPT !.pptxImages = write_frames(@)]
    ELSE [f EXCEPT !.pdf = write_file(@),
                   !.pdfImages = IF s.nPdf > 0 THEN write_frames(@) ELSE @]

\* lines 145-147 with .pptx-images of an earlier run left in place
images_stage_fs_keep(f) ==
    [f EXCEPT !.pptx = write_file(@)]

\* lines 145-147: the pptx is written; up to the await of ppt_to_images
images_stage_fs(f) ==
    [f EXCEPT !.pptx = write_file(@),
              !.pptxImages = IF @ # "absent" THEN rmtree("dir", @) ELSE @]

images_stage_calls(f) ==
    (IF f.pptxImages # "absent" THEN <<Call("rmtree", "pptx_images_dir")>> ELSE <<>>)
    \o <<Call("ppt_to_images", "pptx_path")>>

\* lines 149-154: the pptx frames are written; up to the await of convert_to_pdf
pdf_stage_fs(f) ==
    [f EXCEPT !.pptxImages = write_frames(@),
              !.pdf = IF @ # "absent" THEN rmtree("file", @) ELSE @,
              !.pdfImages = IF @ # "absent" THEN rmtree("dir", @) ELSE @]

pdf_stage_calls(f) ==
    (IF f.pdf # "absent" THEN <<Call("rmtree", "pdf_path")>> ELSE <<>>)
    \o (IF f.pdfImages # "absent" THEN <<Call("rmtree", "pdf_images_dir")>> ELSE <<>>)
    \o <<Call("convert_to_pdf", "pdf_path")>>

\* lines 153-158 returned: the pdf is written.  Nothing in _process_slides
\* writes pdf_images_dir after line 152 removed it: the frames found there at
\* line 167 (s.nPdf of them) are what convert_to_pdf left
pdf_done_fs(f, s) ==
    [f EXCEPT !.pdf = write_file(@),
              !.pdfImages = IF s.nPdf > 0 THEN write_frames(@) ELSE @]

\* lines 162-181: the calls of the synchronous tail that ended with outcome o
tail_calls(o) ==
    <<Call("_check_pptx_validity", "pptx_path")>>
    \o (IF o.embedCalls >= 1 THEN <<Call("_image_embeddings", "pptx_images_dir")>> ELSE <<>>)
    \o (IF o.embedCalls >= 2 THEN <<Call("_image_embeddings", "pdf_images_dir")>> ELSE <<>>)
    \o (IF o.exit \in {179, 181} THEN <<Call("_compare_images", "")>> ELSE <<>>)

\* a lock that never blocks
lock_free_always(l) == TRUE

\* line 35, GLOBAL_LOCK.acquire: the lock is not held
lock_free(l) == l = 0

\* line 29: _IMAGE_MODEL is None
model_is_none(m) == m = "none"

\* a presentation that opens and has no slide
NoPresentation == [opens |-> TRUE, slides |-> <<>>]

\* _check_pptx_validity has not been called on prs
NotCalled == [ret |-> "notcalled", text |-> <<>>, slide |-> 0, shape |-> 0]

\* sys.argv[1]: not given, or the integer n
NoCap == [given |-> FALSE, n |-> 0]

Cap(k) == [given |-> TRUE, n |-> k]

\* workspaces[:max_folders] taken as workspaces[:]
slice_all(seq, n) == seq

\* line 190, workspaces[:max_folders]: the first n elements, all of them if
\* there are fewer; for a negative n all but the last -n
slice_to(seq, n) ==
    IF n >= 0
    THEN SubSeq(seq, 1, IF n < Len(seq) THEN n ELSE Len(seq))
    ELSE SubSeq(seq, 1, IF Len(seq) + n > 0 THEN Len(seq) + n ELSE 0)

\* line 186, sorted(): the directories in the order of their names
RECURSIVE sorted(_)
sorted(dirs) ==
    IF dirs = <<>> THEN <<>>
    ELSE LET m == CHOOSE k \in 1..Len(dirs) :
                     \A j \in 1..Len(dirs) : dirs[k].name <= dirs[j].name
         IN <<dirs[m]>> \o sorted(SubSeq(dirs, 1, m - 1) \o SubSeq(dirs, m + 1, Len(dirs)))

\* lines 185-190: the workspaces that get a task
workspaces(s) ==
    LET all == sorted(s.iterdir)
        capped == IF s.argv.given THEN slice_to(all, s.argv.n) ELSE all
    IN [k \in 1..Len(capped) |-> capped[k].content]

\* test_html2pptx/ of an earlier run left as it is
clear_quarantine_keep(q) == q

\* lines 187-188: shutil.rmtree("test_html2pptx") if it exists
clear_quarantine(q) == {}

\* line 200 left out
count_error_never(c, error) == c

\* line 200: counter[error] += 1
count_error(c, error) == c (+) SetToBag({error})

\* line 201 left out
write_text_nothing(m, error) == m

\* line 201: (workspace / ".html2pptx.error.txt").write_text(error) replaces
\* what the marker file held
write_text(m, error) == {error}

\* the workspace moved into test_html2pptx/
copytree_moves_source(f) == [f EXCEPT !.workspace = "absent"]

\* line 202: shutil.copytree reads the source tree and leaves it as it is
copytree_source(f) == f

\* a copy of workspace j that an earlier run left in test_html2pptx/
OldCopy(j, s) ==
    [name |-> j, content |-> s, marker |-> {Reason("earlier run", "", 0, 0)}]

\* what main() found at its start, for a batch given by its workspaces: no
\* cap, the directories in the order of their names, no test_html2pptx/
Started(w) ==
    [argv |-> NoCap,
     iterdir |-> [k \in 1..Len(w) |-> [name |-> k, content |-> w[k]]],
     test_html2pptx |-> {}]

\* the directories under /opt/workspace, by name
Dirs == 1..Len(startup.iterdir)

DirContent(j) ==
    (CHOOSE d \in {startup.iterdir[k] : k \in 1..Len(startup.iterdir)} : d.name = j).content

\* the content of the directory named k in SpecMain
FoundContent(k) ==
    IF k % 4 = 1 THEN [Good EXCEPT !.nPptx = 2, !.nPdf = 1, !.sims = <<>>]
    ELSE IF k % 4 = 2 THEN [Good EXCEPT !.manifest = "absent"]
    ELSE IF k % 4 = 3 THEN [Good EXCEPT !.nPptx = 2, !.nPdf = 1, !.sims = <<>>]
    ELSE Good

\* no presentation is validated on its own
InitNoPrs ==
    /\ prs = NoPresentation
    /\ validity = NotCalled

InitMain ==
    /\ task = [i \in Tasks |-> NewTask]
    /\ sem = MAX_CONCURRENCY
    /\ doneq = <<>>
    /\ collected = {}
    /\ counter = EmptyBag
    /\ marker = [i \in Tasks |-> {}]
    /\ quarantine = {}
    /\ mainpc = "collect"
    /\ printed = <<>>
    /\ fs = [i \in Tasks |-> InitialFs(ws[i])]
    /\ calls = [i \in Tasks |-> <<>>]
    /\ GLOBAL_LOCK = 0
    /\ IMAGE_MODEL = "none"
    /\ modelInits = 0
    /\ startup = Started(ws)

\* before line 185: n directories, yielded by iterdir() in the order of their
\* names or in the opposite order, a cap or none, and test_html2pptx/ absent
\* or holding the copy of an earlier run
InitStart ==
    /\ \E n \in 0..NumFound :
       \E reversed \in BOOLEAN :
       \E max_folders \in {NoCap} \cup {Cap(k) : k \in (-1)..(n + 1)} :
       \E old \in {{}, {OldCopy(1, Good)}} :
          /\ startup = [argv |-> max_folders,
                        iterdir |-> [k \in 1..n |->
                                       LET name == IF reversed THEN n + 1 - k ELSE k
                                       IN [name |-> name, content |-> FoundContent(name)]],
                        test_html2pptx |-> old]
          /\ quarantine = old
    /\ ws = <<>>
    /\ task = <<>>
    /\ sem = MAX_CONCURRENCY
    /\ doneq = <<>>
    /\ collected = {}
    /\ counter = EmptyBag
    /\ marker = [j \in Dirs |-> {}]
    /\ mainpc = "start"
    /\ printed = <<>>
    /\ fs = [j \in Dirs |-> InitialFs(DirContent(j))]
    /\ calls = [j \in Dirs |-> <<>>]
    /\ GLOBAL_LOCK = 0
    /\ IMAGE_MODEL = "none"
    /\ modelInits = 0
    /\ InitNoPrs
    /\ InitNoPaths
    /\ InitNoSearch
    /\ InitNoTodo

Init ==
    /\ ws \in [1..NumWS -> BatchScenarios]
    /\ InitMain
    /\ InitNoPrs
    /\ InitNoPaths
    /\ InitNoSearch
    /\ InitNoTodo

InitOne ==
    /\ ws \in [1..1 -> AllScenarios]
    /\ InitMain
    /\ InitNoPrs
    /\ InitNoPaths
    /\ InitNoSearch
    /\ InitNoTodo

\* k workspaces whose pptx conversion raises and NumCapWS - k that pass; the
\* tasks start in any order, so which of them come first in ws is immaterial
InitCap ==
    /\ \E k \in 0..NumCapWS :
          ws = [i \in 1..NumCapWS |->
                  IF i <= k THEN [Good EXCEPT !.pptxConv = "raise"] ELSE Good]
    /\ InitMain
    /\ InitNoPrs
    /\ InitNoPaths
    /\ InitNoSearch
    /\ InitNoTodo

\* NumCapWS workspaces that pass, but for the first, whose embedding call may
\* raise
InitLive ==
    /\ \E first \in {Good, [Good EXCEPT !.embed = "raise", !.sims = <<>>]} :
          ws = [i \in 1..NumCapWS |-> IF i = 1 THEN first ELSE Good]
    /\ InitMain
    /\ InitNoPrs
    /\ InitNoPaths
    /\ InitNoSearch
    /\ InitNoTodo

\* k workspaces whose first embedding call raises and NumEmbedWS - k that pass
InitEmbed ==
    /\ \E k \in 0..NumEmbedWS :
          ws = [i \in 1..NumEmbedWS |->
                  IF i <= k THEN [Good EXCEPT !.embed = "raise", !.sims = <<>>] ELSE Good]
    /\ InitMain
    /\ InitNoPrs
    /\ InitNoPaths
    /\ InitNoSearch
    /\ InitNoTodo

\* no batch; every manifest
InitPaths ==
    /\ ws = <<>>
    /\ InitMain
    /\ InitNoPrs
    /\ InitNoTodo
    /\ InitNoSearch
    /\ intermediate \in Manifests
    /\ paths = NotResolved

\* no batch; no todo.csv
InitTodo ==
    /\ ws = <<>>
    /\ InitMain
    /\ InitNoPrs
    /\ InitNoPaths
    /\ InitNoSearch
    /\ InitNoTodo

\* no batch; a list of at most MaxTodos todos, with ids counted from 0 or
\* from 5, of every content and status, to be saved and loaded
InitRoundTrip ==
    /\ ws = <<>>
    /\ InitMain
    /\ InitNoPrs
    /\ InitNoPaths
    /\ InitNoSearch
    /\ todo_csv = NoFile
    /\ todo_call = NoTodoCall
    /\ callers = [c \in Callers |-> NoCaller]
    /\ fin = NoFinalize
    /\ \E n \in 0..MaxTodos : \E first \in {0, 5} :
          \E content \in [1..n -> Contents \cup {TwoLinesRead, <<>>}] :
             \E status \in [1..n -> Statuses] :
                todos_arg = [k \in 1..n |-> Todo(str(first + k - 1), content[k], status[k])]

\* no batch; every list of at most MaxKeys keys
InitSearch ==
    /\ ws = <<>>
    /\ InitMain
    /\ InitNoPrs
    /\ InitNoPaths
    /\ InitNoTodo
    /\ \E keys \in KeyLists : search = Search(keys, 1, <<>>, "", 0)

\* no batch; todo.csv and its lock file there or not, every agent and
\* every outcome path
InitFinalize ==
    /\ ws = <<>>
    /\ InitMain
    /\ InitNoPrs
    /\ InitNoPaths
    /\ InitNoSearch
    /\ todos_arg = <<>>
    /\ callers = [c \in Callers |-> NoCaller]
    /\ todo_csv \in {NoFile, _save_todos(<<Todo("0", Plain, "pending")>>)}
    /\ todo_call = TodoCall("none", NoArgs, todo_csv, NoReturn)
    /\ \E a \in AgentNames : \E o \in PossibleOutcomes : \E lock \in BOOLEAN :
          fin = Finalize(a, o, lock, "")

\* no batch; todo.csv absent or holding one pending todo; caller A is in
\* todo_create and caller B in todo_create or todo_update
InitCallers ==
    /\ ws = <<>>
    /\ InitMain
    /\ InitNoPrs
    /\ InitNoPaths
    /\ InitNoSearch
    /\ todos_arg = <<>>
    /\ fin = NoFinalize
    /\ todo_csv \in {NoFile, _save_todos(<<Todo("0", Plain, "pending")>>)}
    /\ todo_call = TodoCall("none", NoArgs, todo_csv, NoReturn)
    /\ \E a \in {Args(-1, c, None) : c \in Contents} :
          \E b \in {[fn |-> "todo_create", args |-> Args(-1, c, None)] : c \in Contents}
                   \cup {[fn |-> "todo_update", args |-> Args(i, c, s)] :
                            i \in 0..1, c \in Contents \cup {NoContent},
                            s \in UpdateStatuses \cup {None}} :
             callers = [c \in Callers |->
                          IF c = "A" THEN Caller("todo_create", a, "called", <<>>, NoReturn)
                          ELSE Caller(b.fn, b.args, "called", <<>>, NoReturn)]

\* no batch; a presentation of at most MaxShapes shapes on one or two slides,
\* or a file that does not open
InitValidity ==
    /\ ws = <<>>
    /\ InitMain
    /\ InitNoPaths
    /\ InitNoSearch
    /\ InitNoTodo
    /\ validity = NotCalled
    /\ \/ prs = [opens |-> FALSE, slides |-> <<>>]
       \/ prs = NoPresentation
       \/ \E n \in 0..MaxShapes : \E t \in [1..n -> 1..Len(Texts)] :
             /\ InOrderOfAppearance(t)
             /\ prs \in Presentations(t)

----------------------------------------------------------------------------
(* Actions *)

\* the task leaves _process_slides at a line after the semaphore was taken
Leave(i, o) ==
    /\ task' = [task EXCEPT ![i] = Finished(o)]
    /\ sem' = sem + 1
    /\ doneq' = Append(doneq, i)

\* lines 92-140: the task's first run, up to its first await
process_slides_start(i) ==
    /\ mainpc = "collect"
    /\ task[i].pc = "start"
    /\ LET o == intake(ws[i]) IN
        IF o.kind # "proceed"
        THEN /\ task' = [task EXCEPT ![i] = Finished(o)]
             /\ doneq' = Append(doneq, i)
             /\ sem' = sem
             /\ calls' = [calls EXCEPT ![i] = intake_calls(ws[i])]
             /\ fs' = fs
        ELSE IF can_acquire(sem)
        THEN /\ task' = [task EXCEPT ![i].pc = "pptx"]
             /\ sem' = sem - 1
             /\ doneq' = doneq
             /\ calls' = [calls EXCEPT ![i] = intake_calls(ws[i]) \o pptx_stage_calls(fs[i])]
             /\ fs' = [fs EXCEPT ![i] = pptx_stage_fs(@)]
        ELSE /\ task' = [task EXCEPT ![i].pc = "wait"]
             /\ calls' = [calls EXCEPT ![i] = intake_calls(ws[i])]
             /\ UNCHANGED <<sem, doneq, fs>>
    /\ UNCHANGED <<ws, startup, mainVars, modelVars, pureVars>>

\* lines 133-140: a waiting task gets a slot
semaphore_acquire(i) ==
    /\ mainpc = "collect"
    /\ task[i].pc = "wait"
    /\ can_acquire(sem)
    /\ task' = [task EXCEPT ![i].pc = "pptx"]
    /\ sem' = sem - 1
    /\ calls' = [calls EXCEPT ![i] = @ \o pptx_stage_calls(fs[i])]
    /\ fs' = [fs EXCEPT ![i] = pptx_stage_fs(@)]
    /\ UNCHANGED <<ws, startup, doneq, mainVars, modelVars, pureVars>>

\* lines 138-147: convert_html_to_pptx returns or raises
convert_html_to_pptx_done(i) ==
    /\ mainpc = "collect"
    /\ task[i].pc = "pptx"
    /\ IF ws[i].pptxConv = "raise"
       THEN /\ Leave(i, Outcome(143, "none", NoReason, 0, 0))    \* except: return None
            /\ fs' = [fs EXCEPT ![i] = raise_fs(@, ws[i], "convert_html_to_pptx")]
            /\ UNCHANGED calls
       ELSE /\ task' = [task EXCEPT ![i].pc = "images"]
            /\ calls' = [calls EXCEPT ![i] = @ \o images_stage_calls(fs[i])]
            /\ fs' = [fs EXCEPT ![i] = images_stage_fs(@)]
            /\ UNCHANGED <<sem, doneq>>
    /\ UNCHANGED <<ws, startup, mainVars, modelVars, pureVars>>

\* lines 147-158: ppt_to_images returns or raises
ppt_to_images_done(i) ==
    /\ mainpc = "collect"
    /\ task[i].pc = "images"
    /\ IF ws[i].extract = "raise"
       THEN /\ Leave(i, Outcome(160, "fail",
                                Reason("conversion failed", "ppt_to_images", 0, 0), 0, 0))
            /\ fs' = [fs EXCEPT ![i] = raise_fs(@, ws[i], "ppt_to_images")]
            /\ UNCHANGED calls
       ELSE /\ task' = [task EXCEPT ![i].pc = "pdf"]
            /\ calls' = [calls EXCEPT ![i] = @ \o pdf_stage_calls(fs[i])]
            /\ fs' = [fs EXCEPT ![i] = pdf_stage_fs(@)]
            /\ UNCHANGED <<sem, doneq>>
    /\ UNCHANGED <<ws, startup, mainVars, modelVars, pureVars>>

\* lines 153-181: convert_to_pdf returns or raises; then the synchronous tail,
\* which takes and releases GLOBAL_LOCK around each embedding call
convert_to_pdf_done(i) ==
    /\ mainpc = "collect"
    /\ task[i].pc = "pdf"
    /\ IF ws[i].pdfConv = "raise"
       THEN /\ Leave(i, Outcome(160, "fail",
                                Reason("conversion failed", "convert_to_pdf", 0, 0), 0, 0))
            /\ fs' = [fs EXCEPT ![i] = raise_fs(@, ws[i], "convert_to_pdf")]
            /\ UNCHANGED <<calls, modelVars>>
       ELSE LET o == check_and_compare(ws[i]) IN
            /\ Leave(i, o)
            /\ calls' = [calls EXCEPT ![i] = @ \o tail_calls(o)]
            /\ fs' = [fs EXCEPT ![i] = pdf_done_fs(@, ws[i])]
            /\ IMAGE_MODEL' = IF o.embedCalls > 0 THEN "loaded" ELSE IMAGE_MODEL
            /\ modelInits' = IF o.embedCalls > 0 /\ model_is_none(IMAGE_MODEL)
                             THEN modelInits + 1 ELSE modelInits
            /\ UNCHANGED GLOBAL_LOCK
    /\ UNCHANGED <<ws, startup, mainVars, pureVars>>

\* lines 153-171 on their own: convert_to_pdf returns or raises, the pptx is
\* validated and the frames are counted; the task then calls
\* _image_embeddings(pptx_images_dir) and is at line 35
convert_to_pdf_returns(i) ==
    /\ mainpc = "collect"
    /\ task[i].pc = "pdf"
    /\ IF ws[i].pdfConv = "raise"
       THEN /\ Leave(i, Outcome(160, "fail",
                                Reason("conversion failed", "convert_to_pdf", 0, 0), 0, 0))
            /\ fs' = [fs EXCEPT ![i] = raise_fs(@, ws[i], "convert_to_pdf")]
            /\ UNCHANGED calls
       ELSE LET o == check_and_compare(ws[i]) IN
            /\ fs' = [fs EXCEPT ![i] = pdf_done_fs(@, ws[i])]
            /\ IF o.embedCalls = 0
               THEN /\ Leave(i, o)
                    /\ calls' = [calls EXCEPT ![i] = @ \o tail_calls(o)]
               ELSE /\ task' = [task EXCEPT ![i].pc = "lock", ![i].embedCalls = 1]
                    /\ calls' = [calls EXCEPT ![i] =
                                    @ \o <<Call("_check_pptx_validity", "pptx_path"),
                                           Call("_image_embeddings", "pptx_images_dir")>>]
                    /\ UNCHANGED <<sem, doneq>>
    /\ UNCHANGED <<ws, startup, mainVars, modelVars, pureVars>>

\* line 35: with GLOBAL_LOCK
image_embeddings_lock(i) ==
    /\ mainpc = "collect"
    /\ task[i].pc = "lock"
    /\ lock_free(GLOBAL_LOCK)
    /\ GLOBAL_LOCK' = i
    /\ task' = [task EXCEPT ![i].pc = "model"]
    /\ UNCHANGED <<ws, startup, sem, doneq, mainVars, fs, calls, IMAGE_MODEL, modelInits, pureVars>>

\* lines 36, 27-31: _get_image_model builds the model if there is none
get_image_model_done(i) ==
    /\ mainpc = "collect"
    /\ task[i].pc = "model"
    /\ IF model_is_none(IMAGE_MODEL)
       THEN /\ IMAGE_MODEL' = "loaded"
            /\ modelInits' = modelInits + 1
       ELSE UNCHANGED <<IMAGE_MODEL, modelInits>>
    /\ task' = [task EXCEPT ![i].pc = "embedding"]
    /\ UNCHANGED <<ws, startup, sem, doneq, mainVars, fs, calls, GLOBAL_LOCK, pureVars>>

\* line 37: get_image_embedding returns or raises and the with statement
\* releases the lock; after the first call the task makes the second (line
\* 174), after the second it compares the frames (lines 175-181)
get_image_embedding_done(i) ==
    /\ mainpc = "collect"
    /\ task[i].pc = "embedding"
    /\ GLOBAL_LOCK' = 0
    /\ IF ws[i].embed = "raise"
       THEN /\ Leave(i, check_and_compare(ws[i]))
            /\ UNCHANGED calls
       ELSE IF task[i].embedCalls = 1
       THEN /\ task' = [task EXCEPT ![i].pc = "lock", ![i].embedCalls = 2]
            /\ calls' = [calls EXCEPT ![i] =
                            Append(@, Call("_image_embeddings", "pdf_images_dir"))]
            /\ UNCHANGED <<sem, doneq>>
       ELSE /\ Leave(i, check_and_compare(ws[i]))
            /\ calls' = [calls EXCEPT ![i] = Append(@, Call("_compare_images", ""))]
    /\ UNCHANGED <<ws, startup, mainVars, fs, IMAGE_MODEL, modelInits, pureVars>>

\* lines 185-194: main() up to the loop: the workspaces are listed, sorted and
\* capped, test_html2pptx/ is removed, the semaphore, the tasks and the
\* counter are created
main_start ==
    /\ mainpc = "start"
    /\ ws' = workspaces(startup)
    /\ quarantine' = clear_quarantine(quarantine)
    /\ task' = [i \in 1..Len(workspaces(startup)) |-> NewTask]
    /\ sem' = MAX_CONCURRENCY
    /\ counter' = EmptyBag
    /\ mainpc' = "collect"
    /\ UNCHANGED <<startup, doneq, collected, marker, printed, fs, calls, modelVars, pureVars>>

\* lines 195-202: one iteration of `for task in as_completed(tasks)`.  An
\* exception of the task is raised by `await task`, leaves main() and
\* asyncio.run cancels the tasks still pending (line 209); nothing awaits
\* them any more (a task cancelled inside convert_html_to_pptx returns None
\* through the bare except of line 142, to no one).
main_as_completed ==
    /\ mainpc = "collect"
    /\ doneq # <<>>
    /\ LET i == Head(doneq)
           error == task[i].reason
       IN
        /\ doneq' = Tail(doneq)
        /\ collected' = collected \cup {i}
        /\ IF task[i].kind = "exc"
           THEN /\ mainpc' = "aborted"
                /\ task' = [j \in Tasks |->
                              IF task[j].pc = "done" THEN task[j]
                              ELSE [task[j] EXCEPT !.pc = "cancelled"]]
                /\ sem' = MAX_CONCURRENCY
                /\ UNCHANGED <<counter, marker, quarantine, fs>>
           ELSE IF task[i].kind = "none"
           THEN UNCHANGED <<task, sem, counter, marker, quarantine, mainpc, fs>>
           ELSE /\ counter' = count_error(counter, error)
                /\ marker' = [marker EXCEPT ![i] = write_text(@, error)]
                /\ quarantine' = copytree(quarantine, i, marker'[i])
                /\ fs' = [fs EXCEPT ![i] = copytree_source(@)]
                /\ UNCHANGED <<task, sem, mainpc>>
    /\ UNCHANGED <<ws, startup, printed, calls, modelVars, pureVars>>

\* line 203
main_print ==
    /\ mainpc = "collect"
    /\ collected = Tasks
    /\ printed' = <<BagCardinality(counter), Len(ws)>>
    /\ mainpc' = "printed"
    /\ UNCHANGED <<ws, startup, task, sem, doneq, collected, counter, marker, quarantine,
                   fs, calls, modelVars, pureVars>>

\* a batch of at most MAX_CONCURRENCY workspaces: no task ever waits
Next ==
    \/ \E i \in Tasks : process_slides_start(i)
    \/ \E i \in Tasks : convert_html_to_pptx_done(i)
    \/ \E i \in Tasks : ppt_to_images_done(i)
    \/ \E i \in Tasks : convert_to_pdf_done(i)
    \/ main_as_completed
    \/ main_print

\* with more workspaces than slots a task may have to wait for the semaphore
NextCap ==
    \/ Next
    \/ \E i \in Tasks : semaphore_acquire(i)

\* main() from its first line; of the directories of SpecMain at most
\* MAX_CONCURRENCY pass the intake, so no task waits
NextMain ==
    \/ main_start
    \/ Next

\* the synchronous tail in steps, to see the states inside _image_embeddings.
\* The tasks interleave here at every step, as threads would; asyncio.run
\* runs a task from line 162 to its return without running another one, so
\* the behaviours of the program are among these.
NextEmbed ==
    \/ \E i \in Tasks : process_slides_start(i)
    \/ \E i \in Tasks : convert_html_to_pptx_done(i)
    \/ \E i \in Tasks : ppt_to_images_done(i)
    \/ \E i \in Tasks : convert_to_pdf_returns(i)
    \/ \E i \in Tasks : image_embeddings_lock(i)
    \/ \E i \in Tasks : get_image_model_done(i)
    \/ \E i \in Tasks : get_image_embedding_done(i)
    \/ main_as_completed
    \/ main_print

\* line 162 on its own: _check_pptx_validity(pptx_path)
check_pptx_validity_call ==
    /\ validity = NotCalled
    /\ validity' = check_pptx_validity(prs)
    /\ UNCHANGED <<ws, startup, task, sem, doneq, mainVars, fs, calls, modelVars, prs,
                   intermediate, paths, todo_csv, todo_call, todos_arg, callers, fin, search>>

NextValidity == check_pptx_validity_call

\* lines 109-127 on their own
resolve_paths_call ==
    /\ paths = NotResolved
    /\ paths' = resolve_paths(intermediate)
    /\ UNCHANGED <<ws, startup, task, sem, doneq, mainVars, fs, calls, modelVars, prs,
                   validity, intermediate, todo_csv, todo_call, todos_arg, callers, fin, search>>

NextPaths == resolve_paths_call

\* lines 109-115 of tools/task.py
todo_create(todo_content) ==
    LET todos == _load_todos(todo_csv)
        new_id == new_id_of(todos)
        new_todo == Todo(new_id, todo_content, "pending")
    IN /\ Len(todos) < MaxTodos
       /\ todo_csv' = _save_todos(Append(todos, new_todo))
       /\ todo_call' = TodoCall("todo_create", Args(-1, todo_content, None), todo_csv,
                                Return("created", new_id, <<>>))
       /\ UNCHANGED <<ws, startup, task, sem, doneq, mainVars, fs, calls, modelVars, prs,
                      validity, intermediate, paths, todos_arg, callers, fin, search>>

\* lines 133-144 of tools/task.py
todo_update(idx, todo_content, status) ==
    LET todos == _load_todos(todo_csv)
    IN /\ IF idx < 0 \/ idx >= Len(todos)
          THEN /\ todo_csv' = todo_csv
               /\ todo_call' = TodoCall("todo_update", Args(idx, todo_content, status), todo_csv,
                                        Return("invalid index", "", <<>>))
          ELSE /\ todo_csv' = _save_todos(update_todo(todos, idx, todo_content, status))
               /\ todo_call' = TodoCall("todo_update", Args(idx, todo_content, status), todo_csv,
                                        Return("updated", "", <<>>))
       /\ UNCHANGED <<ws, startup, task, sem, doneq, mainVars, fs, calls, modelVars, prs,
                      validity, intermediate, paths, todos_arg, callers, fin, search>>

\* lines 155-161 of tools/task.py
todo_list ==
    LET todos == _load_todos(todo_csv)
    IN /\ IF todos = <<>>
             \/ \A k \in 1..Len(todos) : todos[k].status \in {"completed", "skipped"}
          THEN /\ todo_csv' = unlink(todo_csv)
               /\ todo_call' = TodoCall("todo_list", NoArgs, todo_csv,
                                        Return("All todos completed", "", <<>>))
          ELSE /\ todo_csv' = todo_csv
               /\ todo_call' = TodoCall("todo_list", NoArgs, todo_csv, Return("todos", "", todos))
       /\ UNCHANGED <<ws, startup, task, sem, doneq, mainVars, fs, calls, modelVars, prs,
                      validity, intermediate, paths, todos_arg, callers, fin, search>>

\* lines 88-96 on their own: _save_todos(todos_arg)
save_todos_call ==
    /\ todo_csv = NoFile
    /\ todo_csv' = _save_todos(todos_arg)
    /\ UNCHANGED <<ws, startup, task, sem, doneq, mainVars, fs, calls, modelVars, prs,
                   validity, intermediate, paths, todo_call, todos_arg, callers, fin, search>>

\* lines 74-85 on their own: _load_todos() of the file that was saved
load_todos_call ==
    /\ todo_csv # NoFile
    /\ todo_call = NoTodoCall
    /\ todo_call' = TodoCall("_load_todos", NoArgs, todo_csv,
                             Return("loaded", "", _load_todos(todo_csv)))
    /\ UNCHANGED <<ws, startup, task, sem, doneq, mainVars, fs, calls, modelVars, prs,
                   validity, intermediate, paths, todo_csv, todos_arg, callers, fin, search>>

NextRoundTrip == save_todos_call \/ load_todos_call

\* lines 109 and 133 of a caller: todos = _load_todos(), under the file lock,
\* which is released when _load_todos returns
caller_load_todos(c) ==
    /\ callers[c].pc = "called"
    /\ callers' = [callers EXCEPT ![c].pc = "loaded", ![c].todos = _load_todos(todo_csv)]
    /\ UNCHANGED <<ws, startup, task, sem, doneq, mainVars, fs, calls, modelVars, prs,
                   validity, intermediate, paths, todo_csv, todo_call, todos_arg, fin, search>>

\* lines 110-115 of a caller in todo_create: the todo is appended to the list
\* the caller loaded and the list is saved, under the file lock taken anew
caller_todo_create(c) ==
    LET todos == callers[c].todos
        new_id == new_id_of(todos)
        new_todo == Todo(new_id, callers[c].args.todo_content, "pending")
    IN /\ callers[c].pc = "loaded"
       /\ callers[c].fn = "todo_create"
       /\ todo_csv' = _save_todos(Append(todos, new_todo))
       /\ callers' = [callers EXCEPT ![c].pc = "returned",
                                     ![c].ret = Return("created", new_id, <<>>)]
       /\ UNCHANGED <<ws, startup, task, sem, doneq, mainVars, fs, calls, modelVars, prs,
                      validity, intermediate, paths, todo_call, todos_arg, fin, search>>

\* lines 135-144 of a caller in todo_update
caller_todo_update(c) ==
    LET todos == callers[c].todos
        a == callers[c].args
    IN /\ callers[c].pc = "loaded"
       /\ callers[c].fn = "todo_update"
       /\ IF a.idx < 0 \/ a.idx >= Len(todos)
          THEN /\ todo_csv' = todo_csv
               /\ callers' = [callers EXCEPT ![c].pc = "returned",
                                             ![c].ret = Return("invalid index", "", <<>>)]
          ELSE /\ todo_csv' = _save_todos(update_todo(todos, a.idx, a.todo_content, a.status))
               /\ callers' = [callers EXCEPT ![c].pc = "returned",
                                             ![c].ret = Return("updated", "", <<>>)]
       /\ UNCHANGED <<ws, startup, task, sem, doneq, mainVars, fs, calls, modelVars, prs,
                      validity, intermediate, paths, todo_call, todos_arg, fin, search>>

\* two callers, each in one call, in any interleaving of their steps
NextCallers ==
    \/ \E c \in Callers : caller_load_todos(c)
    \/ \E c \in Callers : caller_todo_create(c)
    \/ \E c \in Callers : caller_todo_update(c)

\* lines 180-227 of tools/task.py
finalize ==
    LET ret == finalize_checks(fin.outcome, fin.agent_name)
    IN /\ fin.ret = ""
       /\ IF ret = "finalize"
          THEN /\ todo_csv' = unlink(todo_csv)
               /\ fin' = [fin EXCEPT !.lock = unlink_lock(@), !.ret = "outcome"]
          ELSE /\ todo_csv' = todo_csv
               /\ fin' = [fin EXCEPT !.ret = ret]
       /\ UNCHANGED <<ws, startup, task, sem, doneq, mainVars, fs, calls, modelVars, prs,
                      validity, intermediate, paths, todo_call, todos_arg, callers, search>>

NextFinalize == finalize

\* lines 59-65 of tools/search.py: one iteration of the loop
search_iteration ==
    /\ search.end = ""
    /\ search.idx <= Len(search.TAVILY_KEYS)
    /\ IF tavily_request(search.TAVILY_KEYS[search.idx]) = "json"
       THEN search' = [search EXCEPT !.requested = Append(@, search.idx),
                                     !.end = "returned", !.from = search.idx]
       ELSE search' = [search EXCEPT !.requested = Append(@, search.idx),
                                     !.idx = enumerate_next(@)]
    /\ UNCHANGED <<ws, startup, task, sem, doneq, mainVars, fs, calls, modelVars, prs,
                   validity, intermediate, paths, todo_csv, todo_call, todos_arg, callers, fin>>

\* lines 67-69 of tools/search.py: the loop is over
search_raise ==
    /\ search.end = ""
    /\ search.idx > Len(search.TAVILY_KEYS)
    /\ search' = [search EXCEPT !.end = "RuntimeError"]
    /\ UNCHANGED <<ws, startup, task, sem, doneq, mainVars, fs, calls, modelVars, prs,
                   validity, intermediate, paths, todo_csv, todo_call, todos_arg, callers, fin>>

NextSearch == search_iteration \/ search_raise

\* the tools called one after the other
NextTodo ==
    \/ \E c \in Contents : todo_create(c)
    \/ \E idx \in -1..MaxTodos : \E c \in Contents \cup {NoContent} :
          \E s \in UpdateStatuses \cup {None} : todo_update(idx, c, s)
    \/ todo_list

\* a batch of NumWS workspaces of every kind
Spec == Init /\ [][Next]_vars

\* a batch of one workspace, of every content
SpecOne == InitOne /\ [][Next]_vars

\* a batch of more workspaces than slots
SpecCap == InitCap /\ [][NextCap]_vars

\* main() from its first line, over the directories it finds
SpecMain == InitStart /\ [][NextMain]_vars

\* a batch of more workspaces than slots, one of which may raise, with every
\* enabled step of the event loop eventually taken and every external call
\* returning
SpecLive == InitLive /\ [][NextCap]_vars /\ WF_vars(NextCap)

\* a batch whose tasks all reach the embedding model
SpecEmbed == InitEmbed /\ [][NextEmbed]_vars

\* _check_pptx_validity on every presentation
SpecValidity == InitValidity /\ [][NextValidity]_vars

\* lines 109-127 of _process_slides on every manifest
SpecPaths == InitPaths /\ [][NextPaths]_vars

\* the todo tools of tools/task.py, called in any order
SpecTodo == InitTodo /\ [][NextTodo]_vars

\* _save_todos and then _load_todos on every list
SpecRoundTrip == InitRoundTrip /\ [][NextRoundTrip]_vars

\* two callers of the todo tools at once
SpecCallers == InitCallers /\ [][NextCallers]_vars

\* finalize on every outcome path
SpecFinalize == InitFinalize /\ [][NextFinalize]_vars

\* search_with_fallback on every list of keys
SpecSearch == InitSearch /\ [][NextSearch]_vars

----------------------------------------------------------------------------
(* What the claims speak of *)

Done(i) == task[i].pc = "done"

Quarantined(i) == \E q \in quarantine : q.name = i /\ q.content = ws[i]

\* the workspace gets through the code before the semaphore
IntakeOk(s) ==
    /\ s.manifest = "ok"
    /\ s.htmlDir = "files"
    /\ s.pptxKey \/ s.finalExt \in {"pptx", "pdf"}
    /\ s.inputRequest = "ok"

\* a rendering engine raises in the workspace's render stage
EngineRaises(s) ==
    /\ IntakeOk(s)
    /\ \/ s.pptxConv = "raise"
       \/ s.pptxConv = "ok" /\ s.extract = "ok" /\ s.pdfConv = "raise"

\* both engines and the frame extraction succeed
Rendered(s) ==
    /\ IntakeOk(s)
    /\ s.pptxConv = "ok"
    /\ s.extract = "ok"
    /\ s.pdfConv = "ok"

\* no manifest, or an empty markup directory
SkipContent(s) ==
    \/ s.manifest = "absent"
    \/ s.manifest = "ok" /\ s.htmlDir = "empty"

\* the manifest names a markup directory that does not exist
MissingDir(s) == s.manifest = "ok" /\ s.htmlDir = "missing"

\* equal counts, every pair at or above the threshold
IdenticalFrames(s) ==
    /\ Rendered(s)
    /\ s.nPptx = s.nPdf
    /\ s.embed = "ok"
    /\ Len(s.sims) = s.nPptx
    /\ \A k \in 1..Len(s.sims) : s.sims[k] >= SIMILARITY_THRESHOLD

----------------------------------------------------------------------------
(* Claims *)

\* C1: with the cap of 4, in every reachable state of a batch of more than 4
\* workspaces at most 4 tasks are inside the semaphore's section (rendering,
\* validating, comparing).
C1_AtMostFourRendering ==
    Cardinality({i \in Tasks : task[i].pc \in InSection}) <= 4

\* C1 witness: 4 tasks are rendering and a fifth waits for a slot.
C1_FourRenderingOneWaiting ==
    /\ Cardinality({i \in Tasks : task[i].pc \in InSection}) = 4
    /\ \E i \in Tasks : task[i].pc = "wait"

\* C2 (as claimed): an exception leaving a workspace's task never aborts the
\* batch, and once main has awaited that task the workspace is marked,
\* quarantined and counted like a detected failure.
C2_UnexpectedErrorHandledAsFailure ==
    /\ mainpc # "aborted"
    /\ \A i \in collected :
          task[i].kind = "exc" =>
              /\ marker[i] # {}
              /\ Quarantined(i)
              /\ BagCardinality(counter) >= 1

\* C3 (as claimed): when a rendering engine raises in a workspace's render
\* stage, the task's outcome is the failure "conversion failed: <detail>",
\* never None.
C3_EngineFailureReported ==
    \A i \in Tasks :
        Done(i) /\ EngineRaises(ws[i]) =>
            /\ task[i].kind = "fail"
            /\ task[i].reason.msg = "conversion failed"

\* C4: a workspace with no manifest or an empty markup directory is skipped:
\* its task returns None, no marker file is written into it, it is not copied
\* to quarantine, and it adds nothing to the failure counts (the counts never
\* exceed the number of collected workspaces that are not of this kind).
C4_SkippedLeavesNoTrace ==
    /\ \A i \in Tasks :
          SkipContent(ws[i]) =>
              /\ Done(i) => task[i].kind = "none"
              /\ marker[i] = {}
              /\ ~Quarantined(i)
    /\ BagCardinality(counter)
          <= Cardinality({j \in collected : ~SkipContent(ws[j])})

\* C4 witness: the batch printed its summary having collected a skipped
\* workspace and a failing one.
C4_SkippedBesideFailure ==
    /\ mainpc = "printed"
    /\ \E i \in collected : SkipContent(ws[i])
    /\ \E j \in collected : task[j].kind = "fail"

C6_MalformedManifestIsLocalFailure ==
    \A i \in Tasks :
        ws[i].manifest = "malformed" =>
            /\ Done(i) => task[i].kind = "fail"
            /\ \A j \in Tasks \ {i} : task[j].pc # "cancelled"

\* C7 (as claimed): when both engines succeed and the frame sets have equal
\* counts and every pair at or above the threshold, the task passes (it
\* reaches the final return None of line 181).
C7_IdenticalFramesPass ==
    \A i \in Tasks :
        Done(i) /\ IdenticalFrames(ws[i]) =>
            task[i].exit = 181 /\ task[i].kind = "none"

\* C7 (amended): when both engines succeed, _check_pptx_validity accepts the
\* pptx, and the frame sets have equal counts and every pair at or above the
\* threshold, the task passes: every pair is compared and it reaches the
\* final return None of line 181.
C7_ValidIdenticalFramesPass ==
    \A i \in Tasks :
        Done(i) /\ IdenticalFrames(ws[i]) /\ ws[i].validity = "valid" =>
            /\ task[i].exit = 181
            /\ task[i].kind = "none"
            /\ task[i].compared = ws[i].nPptx

\* C7 witness: such a workspace with a pair exactly at the threshold is done.
C7_PassAtThreshold ==
    \E i \in Tasks :
        /\ Done(i)
        /\ IdenticalFrames(ws[i])
        /\ ws[i].validity = "valid"
        /\ \E k \in 1..Len(ws[i].sims) : ws[i].sims[k] = SIMILARITY_THRESHOLD

\* C8: when the batch has printed its summary, every workspace whose task
\* returned a failure holds the reason in its marker file and has a copy of
\* itself in quarantine under its name.
C8_FailuresMarkedAndQuarantined ==
    mainpc = "printed" =>
        \A i \in Tasks :
            task[i].kind = "fail" =>
                /\ marker[i] = {task[i].reason}
                /\ Quarantined(i)

\* C8 witness: the summary is printed for a batch with a failing workspace.
C8_PrintedWithFailure ==
    /\ mainpc = "printed"
    /\ \E i \in Tasks : task[i].kind = "fail"

\* C9 (as claimed): the outcome of a workspace that passed every check
\* differs from the outcome of a skipped one (None), and once main has
\* awaited it a marker file is in the workspace.
C9_PassMarkedAsSuccess ==
    \A i \in Tasks :
        Done(i) /\ task[i].exit = 181 =>
            /\ task[i].kind # "none"
            /\ i \in collected => marker[i] # {}

\* C10: when the frame directories hold different numbers of frames, the
\* task fails with "image count mismatch" naming both counts, having called
\* the embedding model for no directory and compared no pair.
C10_CountMismatchShortCircuits ==
    \A i \in Tasks :
        Done(i) /\ Rendered(ws[i]) /\ ws[i].validity = "valid"
                /\ ws[i].nPptx # ws[i].nPdf =>
            /\ task[i].kind = "fail"
            /\ task[i].reason =
                  Reason("image count mismatch", "", ws[i].nPptx, ws[i].nPdf)
            /\ task[i].embedCalls = 0
            /\ task[i].compared = 0

\* C10 witness: a task is done whose workspace rendered 2 pptx frames and
\* fewer pdf frames.
C10_CountMismatchDone ==
    \E i \in Tasks :
        /\ Done(i)
        /\ Rendered(ws[i])
        /\ ws[i].validity = "valid"
        /\ ws[i].nPptx = 2
        /\ ws[i].nPdf < 2

\* the workspace gets as far as _compare_images: both renderings succeed, the
\* pptx is valid, the counts are equal and the embeddings are computed
Compared(s) ==
    /\ Rendered(s)
    /\ s.validity = "valid"
    /\ s.nPptx = s.nPdf
    /\ s.embed = "ok"
    /\ Len(s.sims) = s.nPptx

\* C11: with the threshold 0.8 a compared pair is a mismatch exactly when its
\* similarity is strictly below 0.8: the task fails with the similarity
\* mismatch exactly when some pair is below 80 hundredths, the reason names a
\* frame and that frame's similarity, which is below 80; a single pair at 75
\* fails naming 75, a single pair at 80 or at 81 passes.
C11_MismatchIffStrictlyBelow ==
    \A i \in Tasks :
        Done(i) /\ Compared(ws[i]) =>
            /\ task[i].exit = 179 <=> \E k \in 1..Len(ws[i].sims) : ws[i].sims[k] < 80
            /\ task[i].exit # 179 => task[i].exit = 181 /\ task[i].kind = "none"
            /\ task[i].exit = 179 =>
                  /\ task[i].kind = "fail"
                  /\ task[i].reason.msg = "Image similarity missmatch"
                  /\ task[i].reason.a \in 1..Len(ws[i].sims)
                  /\ task[i].reason.b = ws[i].sims[task[i].reason.a]
                  /\ task[i].reason.b < 80
            /\ ws[i].sims = <<75>> => task[i].exit = 179 /\ task[i].reason.b = 75
            /\ ws[i].sims \in {<<80>>, <<81>>} => task[i].exit = 181

\* C11 witness: a first pair at exactly 0.8 was passed over and the second
\* pair, at 0.75, is reported with its value.
C11_AtThresholdPassedBelowReported ==
    \E i \in Tasks :
        /\ Done(i)
        /\ Compared(ws[i])
        /\ ws[i].sims = <<80, 75>>
        /\ task[i].reason.a = 2
        /\ task[i].reason.b = 75

\* C12: when pairs are below the threshold the task fails at the first of
\* them in frame order, reports that pair only, and has compared no pair
\* after it.
C12_FirstOffendingPairOnly ==
    \A i \in Tasks :
        Done(i) /\ Compared(ws[i])
                /\ (\E k \in 1..Len(ws[i].sims) : ws[i].sims[k] < SIMILARITY_THRESHOLD) =>
            /\ task[i].kind = "fail"
            /\ ws[i].sims[task[i].reason.a] < SIMILARITY_THRESHOLD
            /\ \A j \in 1..(task[i].reason.a - 1) :
                  ws[i].sims[j] >= SIMILARITY_THRESHOLD
            /\ task[i].compared = task[i].reason.a

\* C12 witness: two pairs are below the threshold and the task is done having
\* compared the first pair only.
C12_TwoBelowFirstReported ==
    \E i \in Tasks :
        /\ Done(i)
        /\ Compared(ws[i])
        /\ ws[i].sims = <<75, 75>>
        /\ task[i].reason.a = 1
        /\ task[i].compared = 1

\* C16: a task has called the embedding model or compared a pair only if its
\* conversions succeeded, its pptx was found valid and its frame counts are
\* equal; a task that failed at an earlier stage has done neither.
C16_EmbeddingOnlyAfterEarlierStages ==
    \A i \in Tasks :
        task[i].embedCalls > 0 \/ task[i].compared > 0 =>
            /\ Rendered(ws[i])
            /\ ws[i].validity = "valid"
            /\ ws[i].nPptx = ws[i].nPdf

\* C16 witness: a task is done that made both embedding calls and compared
\* pairs.
C16_EmbeddedAndCompared ==
    \E i \in Tasks :
        /\ Done(i)
        /\ task[i].embedCalls = 2
        /\ task[i].compared > 0

\* the tasks inside a call into the embedding model: past line 35, holding
\* the lock
InEmbedding == {i \in Tasks : task[i].pc \in {"model", "embedding"}}

\* C18: in every reachable state at most one task is inside a call into the
\* embedding model, that task holds GLOBAL_LOCK, and get_image_model() has
\* built the process-wide model at most once, while several tasks are inside
\* the semaphore's section.
C18_EmbeddingCallsSerialized ==
    /\ Cardinality(InEmbedding) <= 1
    /\ \A i \in InEmbedding : GLOBAL_LOCK = i
    /\ modelInits <= 1
    /\ IMAGE_MODEL = "loaded" <=> modelInits = 1

\* C18 witness: a task is inside its embedding call and uses the model that
\* the calls of another task, which is done, have built.
C18_SecondTaskUsesLoadedModel ==
    \E i \in Tasks : \E j \in Tasks \ {i} :
        /\ task[i].pc = "embedding"
        /\ Done(j)
        /\ task[j].embedCalls = 2
        /\ modelInits = 1

\* the stage a call belongs to: 1 intake, 2 render, 3 structural check,
\* 4 perceptual check
StageOfCall(c) ==
    IF c.fn \in {"json.loads", "InputRequest.model_validate_json"} THEN 1
    ELSE IF c.fn \in {"rmtree", "convert_html_to_pptx", "ppt_to_images", "convert_to_pdf"} THEN 2
    ELSE IF c.fn = "_check_pptx_validity" THEN 3
    ELSE 4

\* the stage of the line a task left _process_slides at
StageOfExit(line) ==
    IF line <= 131 THEN 1
    ELSE IF line <= 160 THEN 2
    ELSE IF line <= 164 THEN 3
    ELSE 4

\* the lines a task leaves at without a fault: nothing to check (94, 107) and
\* pass (181)
NoFaultExits == {94, 107, 181}

\* C17 (as claimed): the calls of a task are in the order intake, render,
\* structural check, perceptual check; a task that meets a fault has made no
\* call of a later stage and ends with a failure result.
C17_StagesInOrderFailAtFirstFault ==
    \A i \in Tasks :
        /\ \A k \in 1..(Len(calls[i]) - 1) :
              StageOfCall(calls[i][k]) <= StageOfCall(calls[i][k + 1])
        /\ Done(i) =>
              /\ \A k \in 1..Len(calls[i]) :
                    StageOfCall(calls[i][k]) <= StageOfExit(task[i].exit)
              /\ task[i].exit \notin NoFaultExits => task[i].kind = "fail"

\* C19 (as claimed): while convert_html_to_pptx runs, no pptx and no
\* .pptx-images of an earlier run are on disk, and after a successful render
\* stage both are of this run.
C19_StaleDocumentDeletedBeforeEngine ==
    \A i \in Tasks :
        /\ task[i].pc = "pptx" => fs[i].pptx # "old" /\ fs[i].pptxImages # "old"
        /\ Done(i) /\ Rendered(ws[i]) => fs[i].pptx = "new" /\ fs[i].pptxImages = "new"

\* C20 (as claimed): a task whose render stage succeeded has called
\* ppt_to_images on the pptx and on the pdf, and both frame directories are of
\* this run.
C20_FramesExtractedFromBothArtifacts ==
    \A i \in Tasks :
        Done(i) /\ Rendered(ws[i]) =>
            /\ \E k \in 1..Len(calls[i]) : calls[i][k] = Call("ppt_to_images", "pptx_path")
            /\ \E k \in 1..Len(calls[i]) : calls[i][k] = Call("ppt_to_images", "pdf_path")
            /\ fs[i].pptxImages = "new"
            /\ fs[i].pdfImages = "new"

\* _check_pptx_validity has returned for prs, which opens
Validated == validity # NotCalled /\ prs.opens

NotSpace(c) == c # " "

\* the characters of a text that are not white space (no text of Texts has
\* white space inside)
Characters(text) == SelectSeq(text, NotSpace)

\* the texts of at least MIN_TEXT_LEN characters among the shapes
LongTexts(shapes) ==
    {x \in {Characters(shapes[k]) : k \in 1..Len(shapes)} : Len(x) >= MIN_TEXT_LEN}

Occurrences(shapes, x) ==
    Cardinality({k \in 1..Len(shapes) : Characters(shapes[k]) = x})

\* the distinct long texts that at least two of the shapes have
RepeatedTexts(shapes) == {x \in LongTexts(shapes) : Occurrences(shapes, x) >= 2}

\* the shapes of the whole presentation
AllShapes == shapes_from(prs.slides, 0)

\* the slides (from 1) with DUPLICATE_LIMIT distinct repeated texts
BadSlides ==
    {j \in 1..Len(prs.slides) : Cardinality(RepeatedTexts(prs.slides[j])) >= DUPLICATE_LIMIT}

\* the first shape (from 1) at which the shapes so far have DUPLICATE_LIMIT
\* distinct repeated texts
ThirdRepeatAt(shapes) ==
    CHOOSE k \in 1..Len(shapes) :
        /\ Cardinality(RepeatedTexts(SubSeq(shapes, 1, k))) >= DUPLICATE_LIMIT
        /\ \A j \in 1..(k - 1) :
              Cardinality(RepeatedTexts(SubSeq(shapes, 1, j))) < DUPLICATE_LIMIT

\* C13 (as claimed): the two sets are kept over the whole presentation: it is
\* found invalid exactly when 3 distinct long texts are repeated anywhere in
\* it, a repeat on a later slide counting like one on the same slide.
C13_SetsKeptAcrossPages ==
    Validated =>
        (validity.ret = "dup" <=>
            Cardinality(RepeatedTexts(AllShapes)) >= DUPLICATE_LIMIT)

\* C13 (amended): the two sets are kept per slide: the presentation is found
\* invalid exactly when one slide has 3 distinct long texts each repeated on
\* that slide; a text seen on one slide and again on a later slide is not a
\* duplicate, and duplicates of different slides do not add up.
C13_SetsKeptPerPage ==
    Validated => (validity.ret = "dup" <=> BadSlides # {})

\* C13 witness: 3 distinct texts are repeated across the two slides, none
\* of the slides has 3 repeated texts of its own, and the presentation is
\* found valid.
C13_RepeatsAcrossPagesValid ==
    /\ Validated
    /\ Cardinality(RepeatedTexts(AllShapes)) >= DUPLICATE_LIMIT
    /\ BadSlides = {}
    /\ validity.ret = "valid"

\* C14 (as claimed): the validator fails exactly when the distinct repeated
\* long texts of the presentation reach 3, at the occurrence that adds the
\* third, naming that text and its slide; otherwise the presentation is valid.
C14_FailsAtThirdRepeatInArtifact ==
    Validated =>
        IF Cardinality(RepeatedTexts(AllShapes)) >= DUPLICATE_LIMIT
        THEN /\ validity.ret = "dup"
             /\ validity.text = Characters(AllShapes[ThirdRepeatAt(AllShapes)])
             /\ validity.slide = slide_of(prs.slides, 0, ThirdRepeatAt(AllShapes) - 1)
        ELSE validity.ret = "valid"

\* C14 (amended): the validator fails exactly when the distinct long texts
\* repeated on one slide reach 3, at the occurrence that adds the third on
\* the first such slide, naming the stripped text, the slide and the shape
\* (both counted from 0); with fewer than 3 distinct repeated texts on every
\* slide, or with repeats of texts shorter than 5 characters only, the
\* presentation is valid.
C14_FailsAtThirdRepeatOnPage ==
    Validated =>
        IF BadSlides # {}
        THEN LET j == CHOOSE b \in BadSlides : \A c \in BadSlides : b <= c
                 k == ThirdRepeatAt(prs.slides[j])
             IN /\ validity.ret = "dup"
                /\ validity.slide = j - 1
                /\ validity.shape = k - 1
                /\ validity.text = Characters(prs.slides[j][k])
        ELSE validity = Valid

\* C14 witness: the second slide fails at its sixth shape, whose text, padded
\* with white space, repeats the text of its first shape.
C14_FailedOnSecondPage ==
    /\ Validated
    /\ Len(prs.slides) = 2
    /\ validity = Result("dup", Alpha, 1, 5)
    /\ prs.slides[2][1] = Alpha
    /\ prs.slides[2][6] = AlphaPadded

\* C15 (as claimed): a presentation with the same long text on 3 shapes is
\* found invalid; one whose only repeated text is on 2 shapes is found valid.
C15_SameTextOnThreeElementsFails ==
    Validated =>
        /\ (\E x \in LongTexts(AllShapes) : Occurrences(AllShapes, x) >= 3)
              => validity.ret = "dup"
        /\ (\A x \in LongTexts(AllShapes) : Occurrences(AllShapes, x) <= 2)
              /\ Cardinality(RepeatedTexts(AllShapes)) <= 1
              => validity.ret = "valid"

\* C15 (amended): what makes a presentation invalid is 3 distinct long texts
\* each on at least 2 shapes of one slide, not one text on 3 shapes: with
\* fewer than 3 distinct long texts the presentation is valid however often
\* they are repeated (3 times, or only twice), and a slide on which 3
\* distinct long texts are each on 2 shapes makes it invalid.
C15_ThreeDistinctRepeatedTextsFail ==
    Validated =>
        /\ Cardinality(LongTexts(AllShapes)) < DUPLICATE_LIMIT => validity.ret = "valid"
        /\ (\E j \in 1..Len(prs.slides) :
               Cardinality({x \in LongTexts(prs.slides[j]) :
                               Occurrences(prs.slides[j], x) = 2}) >= DUPLICATE_LIMIT)
              => validity.ret = "dup"

\* C15 witness: the same long text is on 3 shapes of a slide and the
\* presentation is found valid.
C15_SameTextOnThreeElementsValid ==
    /\ Validated
    /\ \E j \in 1..Len(prs.slides) : Occurrences(prs.slides[j], Alpha) >= 3
    /\ validity.ret = "valid"

\* the call that generates the artifact a call of rmtree removes
GeneratorOf(path) ==
    IF path = "pptx_path" THEN "convert_html_to_pptx"
    ELSE IF path = "pptx_images_dir" THEN "ppt_to_images"
    ELSE "convert_to_pdf"

\* C21: in the calls of a task every rmtree of an artifact or frame directory
\* comes before the call that generates it, never after, and in no reachable
\* state, whichever call of the render stage raised and whatever it wrote
\* before, a frame directory holds frames of an earlier run together with
\* frames of this run.
C21_DeletionBeforeGeneration ==
    \A i \in Tasks :
        /\ \A k \in 1..Len(calls[i]) :
              calls[i][k].fn = "rmtree" =>
                  \A j \in 1..(k - 1) : calls[i][j].fn # GeneratorOf(calls[i][k].arg)
        /\ fs[i].pptxImages # "mixed"
        /\ fs[i].pdfImages # "mixed"

\* C21 witness: ppt_to_images raised after writing frames into a workspace
\* that had .pptx-images of an earlier run, and the directory holds frames of
\* this run only.
C21_FaultLeavesNewFramesOnly ==
    \E i \in Tasks :
        /\ Done(i)
        /\ ws[i].extract = "raise"
        /\ ws[i].partial
        /\ ws[i].oldPptxImages
        /\ task[i].exit = 160
        /\ fs[i].pptxImages = "new"

\* the tasks whose result is a failure
Failed == {i \in Tasks : task[i].kind = "fail"}

\* C22: when the summary is printed, the printed total is the sum of the
\* counts of the counter, every reason is counted once per workspace that
\* failed with it, so the total is the number of failed workspaces, and the
\* printed denominator is the number of workspaces left by the cap, those
\* skipped and passed included.
C22_SummaryCountsFailures ==
    printed # <<>> =>
        /\ printed[1] = BagCardinality(counter)
        /\ \A i \in Failed : BagIn(task[i].reason, counter)
        /\ \A r \in BagToSet(counter) :
              CopiesIn(r, counter) = Cardinality({i \in Failed : task[i].reason = r})
        /\ printed[1] = Cardinality(Failed)
        /\ printed[2] = Len(workspaces(startup))
        /\ printed[2] = Cardinality(Tasks)

\* C22 witness: the summary is printed for 2 failures with the same reason
\* out of 4 workspaces, one of them skipped and one passed.
C22_TwoOfFourFailed ==
    /\ printed = <<2, 4>>
    /\ \E r \in BagToSet(counter) : CopiesIn(r, counter) = 2
    /\ \E i \in Tasks : task[i].exit = 94
    /\ \E i \in Tasks : task[i].exit = 181

\* C23: once main() has listed the directories, with a cap N >= 0 the
\* workspaces that get a task are the first min(N, total) directories in the
\* order of their names, without a cap all of them, each with one task; a
\* directory beyond the cap is never rendered (no call, its artifacts as they
\* were), marked, collected or quarantined.
C23_CapKeepsFirstN ==
    mainpc # "start" =>
        LET total == Len(startup.iterdir)
            N == startup.argv.n
        IN /\ startup.argv.given /\ N >= 0 =>
                  Len(ws) = (IF N < total THEN N ELSE total)
           /\ ~startup.argv.given => Len(ws) = total
           /\ \A k \in 1..Len(ws) : ws[k] = DirContent(k)
           /\ DOMAIN task = 1..Len(ws)
           /\ \A j \in Dirs \ Tasks :
                 /\ calls[j] = <<>>
                 /\ fs[j] = InitialFs(DirContent(j))
                 /\ marker[j] = {}
                 /\ j \notin collected
                 /\ \A q \in quarantine : q.name # j
           /\ BagCardinality(counter) <= Cardinality(Tasks)

\* C23 witness: of 4 directories, yielded by iterdir() in reverse order, the
\* cap 2 has kept the first two; the summary is printed, the first directory
\* is quarantined and the third, which has the same content, is untouched.
C23_ThirdOfFourBeyondCap ==
    /\ printed = <<1, 2>>
    /\ startup.argv = Cap(2)
    /\ Len(startup.iterdir) = 4
    /\ startup.iterdir[1].name = 4
    /\ DirContent(3) = DirContent(1)
    /\ marker[1] # {}
    /\ marker[3] = {}

\* C24: from the launch of the tasks on, test_html2pptx/ holds no copy of an
\* earlier run; when the summary is printed it holds one copy of each
\* workspace that failed in this run, with its marker, and nothing else.
C24_QuarantineOfThisRunOnly ==
    /\ mainpc # "start" => quarantine \cap startup.test_html2pptx = {}
    /\ printed # <<>> =>
          /\ {q.name : q \in quarantine} = Failed
          /\ Cardinality(quarantine) = Cardinality(Failed)
          /\ \A q \in quarantine :
                q.content = ws[q.name] /\ q.marker = {task[q.name].reason}

\* C24 witness: test_html2pptx/ held a copy of an earlier run when main()
\* started and holds the copies of the 2 failures of this run when the
\* summary is printed.
C24_OldCopyReplaced ==
    /\ startup.test_html2pptx # {}
    /\ printed # <<>>
    /\ Cardinality(quarantine) = 2

CallCount(i, f) == Cardinality({k \in 1..Len(calls[i]) : calls[i][k].fn = f})

\* main() has ended: the summary is printed or an exception has left it
Ended == mainpc \in {"printed", "aborted"}

\* C26 (as claimed): no workspace is rendered twice, and when the run has
\* ended every workspace has delivered exactly one outcome to main().
C26_OneOutcomePerWorkspace ==
    /\ \A i \in Tasks :
          /\ CallCount(i, "convert_html_to_pptx") <= 1
          /\ CallCount(i, "convert_to_pdf") <= 1
          /\ Cardinality({k \in 1..Len(doneq) : doneq[k] = i}) <= 1
          /\ i \in collected => \A k \in 1..Len(doneq) : doneq[k] # i
    /\ Ended => collected = Tasks

\* C27 (as claimed): in a batch of more workspaces than slots, with fair
\* scheduling and every external call returning, eventually every task is
\* done, every slot is free again and the summary is printed.
C27_EveryTaskDoneSummaryPrinted ==
    <>(/\ \A i \in Tasks : Done(i)
       /\ sem = MAX_CONCURRENCY
       /\ mainpc = "printed")

\* lines 89-181: the result of _process_slides as a function of the workspace
own_outcome(s) ==
    IF intake(s).kind # "proceed" THEN intake(s)
    ELSE IF s.pptxConv = "raise" THEN Outcome(143, "none", NoReason, 0, 0)
    ELSE IF s.extract = "raise"
        THEN Outcome(160, "fail", Reason("conversion failed", "ppt_to_images", 0, 0), 0, 0)
    ELSE IF s.pdfConv = "raise"
        THEN Outcome(160, "fail", Reason("conversion failed", "convert_to_pdf", 0, 0), 0, 0)
    ELSE check_and_compare(s)

\* C28 (as claimed): when the run has ended, what is recorded for a workspace
\* is a function of its own content and of the collaborators' answers for
\* it: it is marked and quarantined with its reason if that content fails,
\* and left unmarked if it is skipped or passes, whatever the other
\* workspaces are and in whatever order the tasks ran.
C28_RecordedOutcomeOfOwnContent ==
    Ended =>
        \A i \in Tasks :
            /\ marker[i] = (IF own_outcome(ws[i]).kind = "fail"
                            THEN {own_outcome(ws[i]).reason} ELSE {})
            /\ Quarantined(i) <=> own_outcome(ws[i]).kind = "fail"

\* the artifact paths of the manifest have been resolved
Resolved == paths # NotResolved /\ ~paths.raised

\* a path as the workspace resolves it: a relative path lies in the
\* workspace, an absolute path is kept
InWorkspace(p) == IF p.root = "" THEN PathOf("workspace", p.stem, p.suffix) ELSE p

\* the manifest's final artifact is a PDF, in any letter case
FinalIsPdf == intermediate.final.suffix \in {".pdf", ".PDF"}

\* C29: the PDF path is the manifest's final artifact when that has a .pdf
\* suffix in any letter case, and otherwise the PPTX path with its suffix
\* replaced by .pdf; in both cases a relative path is resolved against the
\* workspace.
C29_PdfPathFromFinalOrPptx ==
    Resolved =>
        /\ paths.pdf_path =
              IF FinalIsPdf THEN InWorkspace(intermediate.final)
              ELSE PathOf(paths.pptx_path.root, paths.pptx_path.stem, ".pdf")
        /\ paths.pdf_path.root \in {"/", "workspace"}
        /\ paths.pptx_path.root \in {"/", "workspace"}

\* a relative final artifact final.PDF next to a "pptx" entry of another name:
\* the PDF path is the final artifact in the workspace, not deck.pdf
C29_UpperCaseFinalKept ==
    /\ Resolved
    /\ intermediate.hasPptx
    /\ intermediate.pptx = PathOf("", "deck", ".pptx")
    /\ intermediate.final = PathOf("", "final", ".PDF")
    /\ paths.pdf_path = PathOf("workspace", "final", ".PDF")
    /\ paths.pptx_path = PathOf("workspace", "deck", ".pptx")

\* the list a file holds
StoredList(file) == _load_todos(file)

\* every todo of a list is completed or skipped
AllFinished(todos) ==
    \A k \in 1..Len(todos) : todos[k].status \in {"completed", "skipped"}

\* C30: todo_list returns the completion message exactly when the stored list
\* is empty or every todo is completed or skipped, and then removes the
\* stored list, so that a following todo_create starts again from id 0;
\* otherwise it returns the current list and leaves the stored list unchanged.
C30_ListCompletesAndResets ==
    [][/\ todo_call'.fn = "todo_list" =>
             IF StoredList(todo_csv) = <<>> \/ AllFinished(StoredList(todo_csv))
             THEN /\ todo_call'.ret.msg = "All todos completed"
                  /\ ~todo_csv'.exists
             ELSE /\ todo_call'.ret.msg = "todos"
                  /\ todo_call'.ret.todos = StoredList(todo_csv)
                  /\ todo_csv' = todo_csv
        /\ (/\ todo_call.fn = "todo_list"
            /\ todo_call.ret.msg = "All todos completed"
            /\ todo_call'.fn = "todo_create") =>
               /\ todo_call'.ret.id = "0"
               /\ Len(StoredList(todo_csv')) = 1
               /\ StoredList(todo_csv')[1].id = "0"]_vars

\* todo_list has removed a list of two todos, one completed and one skipped
C30_FinishedListRemoved ==
    /\ todo_call.fn = "todo_list"
    /\ todo_call.ret.msg = "All todos completed"
    /\ Len(StoredList(todo_call.before)) = 2
    /\ StoredList(todo_call.before)[1].status = "completed"
    /\ StoredList(todo_call.before)[2].status = "skipped"
    /\ ~todo_csv.exists

\* C31: the marker file of a failing workspace is written before the
\* workspace is copied to quarantine, so every quarantine copy contains the
\* marker file, holding the failure reason of that workspace.
C31_CopyHoldsMarker ==
    \A q \in quarantine :
        /\ q.name \in Tasks
        /\ task[q.name].kind = "fail"
        /\ q.marker = {task[q.name].reason}
        /\ marker[q.name] = q.marker

\* two failing workspaces are in quarantine, each with its own reason
C31_TwoCopiesTwoReasons ==
    /\ Len(ws) = 2
    /\ \A i \in Tasks : \E q \in quarantine : q.name = i /\ q.marker = {task[i].reason}
    /\ task[1].reason # task[2].reason

\* C32: for every manifest that names an existing, non-empty markup
\* directory, intake resolves a defined document path, from the "pptx" entry
\* or from the final output path, before the render stage starts; no
\* combination of manifest keys and final-output extension leaves it undefined.
C32_DocumentPathDefined ==
    paths # NotResolved =>
        /\ ~paths.raised
        /\ paths.pptx_path # NonePath
        /\ paths.pptx_path.root \in {"/", "workspace"}

\* the names of the positions of a list, counted from zero
PositionNames == <<"0", "1", "2", "3", "4", "5", "6", "7", "8", "9">>

\* the positions at which two lists of one length differ
Changed(old, new) == {k \in 1..Len(old) : old[k] # new[k]}

\* C33: after any sequence of todo_create, todo_update and todo_list calls by
\* one caller every stored todo's id is its position in the stored list, so
\* the ids are distinct, and todo_update(idx) changes the todo whose id is idx.
C33_IdIsPosition ==
    LET todos == StoredList(todo_csv)
        old == StoredList(todo_call.before)
    IN /\ \A k \in 1..Len(todos) : todos[k].id = PositionNames[k]
       /\ \A k, l \in 1..Len(todos) : todos[k].id = todos[l].id => k = l
       /\ (todo_call.fn = "todo_update" /\ todo_call.ret.msg = "updated") =>
             /\ Len(todos) = Len(old)
             /\ \A k \in Changed(old, todos) :
                   old[k].id = PositionNames[todo_call.args.idx + 1]

\* todo_update(1) has changed the second of two todos, whose id is "1"
C33_SecondTodoUpdated ==
    /\ todo_call.fn = "todo_update"
    /\ todo_call.args.idx = 1
    /\ Len(StoredList(todo_csv)) = 2
    /\ Changed(StoredList(todo_call.before), StoredList(todo_csv)) = {2}
    /\ StoredList(todo_csv)[2].id = "1"

\* C35: todo_update with an index below 0 or at or beyond the length of the
\* list returns the invalid-index message and leaves the stored list
\* unchanged; with a valid index it changes only the addressed todo, and of
\* it only the content or status that was supplied, and leaves every other
\* todo and the length of the list unchanged.
C35_UpdateChangesAddressedOnly ==
    todo_call.fn = "todo_update" =>
        LET old == StoredList(todo_call.before)
            new == StoredList(todo_csv)
            a == todo_call.args
        IN IF a.idx < 0 \/ a.idx >= Len(old)
           THEN /\ todo_call.ret.msg = "invalid index"
                /\ todo_csv = todo_call.before
           ELSE /\ todo_call.ret.msg = "updated"
                /\ Len(new) = Len(old)
                /\ \A k \in 1..Len(old) : k # a.idx + 1 => new[k] = old[k]
                /\ new[a.idx + 1].id = old[a.idx + 1].id
                /\ a.todo_content = NoContent =>
                      new[a.idx + 1].content = old[a.idx + 1].content
                /\ a.status = None => new[a.idx + 1].status = old[a.idx + 1].status

\* todo_update(1, status="completed") on two pending todos: the second is
\* completed with the content it had, the first is as it was
C35_StatusOfSecondOnly ==
    /\ todo_call.fn = "todo_update"
    /\ todo_call.args = Args(1, NoContent, "completed")
    /\ StoredList(todo_call.before) =
          <<Todo("0", Plain, "pending"), Todo("1", TwoLinesRead, "pending")>>
    /\ StoredList(todo_csv) =
          <<Todo("0", Plain, "pending"), Todo("1", TwoLinesRead, "completed")>>

\* C38: saving a list of todos and loading it back gives the same list, with
\* the same ids, contents, statuses and order, for every list, the empty list
\* included.
C38_SaveLoadRoundTrip ==
    todo_call.fn = "_load_todos" => todo_call.ret.todos = todos_arg

\* both callers have returned
BothReturned == \A c \in Callers : callers[c].fn # "none" /\ callers[c].pc = "returned"

\* C34: when two callers run todo_create, or todo_create and todo_update, at
\* once, no update is lost: both effects are in the stored list afterwards
\* and the created todos have distinct ids.
C34_NoLostUpdate ==
    BothReturned =>
        LET old == StoredList(todo_call.before)
            new == StoredList(todo_csv)
            b == callers["B"]
        IN IF b.fn = "todo_create"
           THEN /\ Len(new) = Len(old) + 2
                /\ callers["A"].ret.id # b.ret.id
                /\ \A k, l \in 1..Len(new) : new[k].id = new[l].id => k = l
           ELSE /\ Len(new) = Len(old) + 1
                /\ new[Len(new)].id = callers["A"].ret.id
                /\ b.ret.msg = "updated" =>
                      /\ b.args.status # None => new[b.args.idx + 1].status = b.args.status
                      /\ b.args.todo_content # NoContent =>
                            new[b.args.idx + 1].content = universal_newlines(b.args.todo_content)

\* the messages finalize returns for an outcome it does not accept
ErrorMessages ==
    {"Outcome does not exist", "Outcome file should be a markdown file",
     "Outcome file should be a pptx file", "PPTX file should contain at least one slide",
     "Outcome path should be a directory containing HTML files",
     "All HTML files should start with 'slide_'"}

\* the outcome path exists and passes the check of the agent: Research, a
\* markdown file; PPTAgent, a pptx file of at least one slide; Design, a
\* directory of at least one html file, all named slide_*
PassesChecks(o, agent_name) ==
    /\ o.exists
    /\ agent_name = "Research" => (o.kind = "file" /\ o.suffix = ".md")
    /\ agent_name = "PPTAgent" =>
          (o.kind = "file" /\ o.suffix = ".pptx" /\ o.opens /\ o.slides >= 1)
    /\ agent_name = "Design" =>
          /\ o.kind = "dir"
          /\ o.html # {}
          /\ \A f \in o.html :
                Len(f) >= 6 /\ \A k \in 1..6 : f[k] = <<"s", "l", "i", "d", "e", "_">>[k]

\* C36: finalize returns an error message and leaves the todo list file and
\* its lock file in place whenever the outcome path does not exist or fails
\* the check of the agent; only when the checks pass does it remove both
\* files and return the outcome path.
C36_FinalizeOnlyWhenChecksPass ==
    fin.ret # "" =>
        IF PassesChecks(fin.outcome, fin.agent_name)
        THEN /\ fin.ret = "outcome"
             /\ ~todo_csv.exists
             /\ ~fin.lock
        ELSE /\ fin.ret \in ErrorMessages
             /\ todo_csv = todo_call.before
             /\ fin.lock = fin.lock_before

\* the keys that get a response of status 200
Succeeding == {k \in 1..Len(search.TAVILY_KEYS) : search.TAVILY_KEYS[k] = 200}

\* C37: search_with_fallback tries the configured keys in the order of the
\* list, each at most once, returns the first successful response without
\* trying a later key, and raises its RuntimeError only after every key has
\* failed, at once when there is no key.
C37_FirstSuccessfulKey ==
    LET n == Len(search.requested)
    IN /\ n <= Len(search.TAVILY_KEYS)
       /\ \A k \in 1..n : search.requested[k] = k
       /\ \A k \in 1..(n - 1) : k \notin Succeeding
       /\ search.end = "returned" =>
             /\ search.from = n
             /\ n \in Succeeding
             /\ \A k \in Succeeding : k >= n
       /\ search.end = "RuntimeError" =>
             /\ n = Len(search.TAVILY_KEYS)
             /\ Succeeding = {}
       /\ search.end = "" => (n = 0 \/ n \notin Succeeding)

\* of three keys the first gets 429, the second 200: the response of the
\* second is returned and the third was not requested
C37_SecondKeyAnswers ==
    /\ Len(search.TAVILY_KEYS) = 3
    /\ search.TAVILY_KEYS[1] = 429
    /\ search.TAVILY_KEYS[2] = 200
    /\ search.requested = <<1, 2>>
    /\ search.end = "returned"
    /\ search.from = 2

====
